---- MODULE Spec2Model ----
(***************************************************************************)
(* Model of the filter package of packetcap/go-pcap: the expression        *)
(* parser (Expression.Next / Expression.Compile / setPrimitiveDefaults),   *)
(* the composite stitcher (composite.Compile / composite.Size) and the     *)
(* classic-BPF machine that runs the emitted instructions on a frame.      *)
(*                                                                         *)
(* primitive.Compile and primitive.Size are not part of the sources; they  *)
(* are modelled from the specification's exit convention (section 4.4.1)   *)
(* and from the instruction counts of the test table.                      *)
(***************************************************************************)
EXTENDS Integers, Sequences, FiniteSets, TLC

VARIABLES
    c,          \* composite.Compile: the receiver, [primitives, and]
    pc,         \* composite.Compile: position ("enter", "loop", "done", "ran", "idle")
    i,          \* composite.Compile: index of the child the loop is at (1-based)
    inst,       \* composite.Compile: the instructions accumulated so far
    size,       \* composite.Compile: size := uint32(c.Size())
    retInst,    \* composite.Compile: returned slice (NilSlice for nil)
    retErr,     \* composite.Compile: returned error (NoErr for nil)
    frame,      \* the frame the installed filter is run on (the ids its bytes match)
    verdict,    \* what the BPF machine returned for that frame
    raw,        \* NewExpression: the filter string, as chunks (words and blanks)
    e,          \* the *Expression: NilExpression, or its split and current
    combo,      \* Expression.Compile: var combo composite
    epc,        \* position of the caller: "new", "compile", "compiled", "done",
                \* "ran", "panic" (nil pointer dereference), "idle"
    fe,         \* Expression.Compile: the last element Next returned
    filter,     \* Expression.Compile: the Filter returned
    calls,      \* Expression.Compile: how many times Next was called
    finst,      \* Filter.Compile on the returned filter: the instructions
    ferr,       \* Filter.Compile on the returned filter: the error
    prim,       \* setPrimitiveDefaults: the primitive p it updates in place
    orig,       \* setPrimitiveDefaults: p as the caller passed it
    lastPrim,   \* setPrimitiveDefaults: lastPrimitive (nil, or the preceding primitive)
    once,       \* setPrimitiveDefaults: p as it was after the first application
    dpc,        \* how many times setPrimitiveDefaults was applied ("idle" when not in use)
    h,          \* the *Handle: the descriptor number h.fd refers to, close (sync.Once),
                \* closed, timeout > 0, and how often Close ran unix.Close(h.fd)
    cpc,        \* position of each goroutine that calls Handle.Close
    rd,         \* the goroutine that calls ReadPacketData: position, result
    ctx,        \* whether h.context is cancelled
    blk,        \* a check block's arguments (direction, fail, succeed, mask) and the frame
    binst,      \* the instructions the block's emitter returned
    bpos,       \* the instruction the machine is at, counted from the block's start
    bacc,       \* what the machine's register A holds (the field last loaded)
    bpc,        \* "idle", "chosen" (arguments picked), "run" (emitted), "left", "panic"
    rs,         \* one call of readPacketDataSyscall: the caller, its watcher goroutine,
                \* the wake-up pipe, the done channel, the context and the device
    ol,         \* one call of openLive: the platform, the position, the descriptor
                \* the call holds, the /dev/bpf devices and the result
    mm          \* the Linux handle of the mmap ring: frameIndex, framePtr, the ring
                \* geometry, the status words of the frames, the kernel's position

compVars == <<c, pc, i, inst, size, retInst, retErr, frame, verdict>>
exprVars == <<raw, e, combo, epc, fe, filter, calls, finst, ferr>>
defVars == <<prim, orig, lastPrim, once, dpc>>
vars == <<c, pc, i, inst, size, retInst, retErr, frame, verdict,
          raw, e, combo, epc, fe, filter, calls, finst, ferr,
          prim, orig, lastPrim, once, dpc, h, cpc, rd, ctx,
          blk, binst, bpos, bacc, bpc, rs, ol, mm>>
handleVars == <<h, cpc, rd, ctx>>
blockVars == <<blk, binst, bpos, bacc, bpc>>
sysVars == <<rs, ol, mm>>

NoErr == "noerr"

-----------------------------------------------------------------------------
(* Bounds of the model.                                                    *)

\* longest composite whose children are drawn from every primitive of PrimSet
MaxChildren == 3
\* longest composite whose children are drawn from LongSet only
MaxLong == 10

-----------------------------------------------------------------------------
(* Integer widths.                                                         *)

\* uint8 arithmetic (Size() returns uint8)
Uint8(n) == n % 256

\* A uint32 is kept as its two 16-bit limbs <<hi, lo>>: value = hi * 65536 + lo.
\* ToUint32(d) is d modulo 2^32 for -2^31 < d < 2^31.
ToUint32(d) ==
    IF d >= 0 THEN <<d \div 65536, d % 65536>>
    ELSE <<65535 - ((-d - 1) \div 65536), 65535 - ((-d - 1) % 65536)>>

\* whether pos + 1 + u < n for a uint32 u (no instruction index reaches 2^16)
InRange(pos, u, n) == u[1] = 0 /\ pos + 1 + u[2] < n

-----------------------------------------------------------------------------
(* Enumerations of constants.go.                                           *)

filterKind ==
    [Unset |-> "kindUnset", Host |-> "host", Net |-> "net", Port |-> "port",
     PortRange |-> "portrange"]

filterDirection ==
    [Unset |-> "dirUnset", SrcAndDst |-> "src and dst",
     SrcOrDst |-> "src or dst", Src |-> "src", Dst |-> "dst", Ra |-> "ra",
     Ta |-> "ta", Addr1 |-> "addr1", Addr2 |-> "addr2", Addr3 |-> "addr3",
     Addr4 |-> "addr4"]

filterProtocol ==
    [Unset |-> "protoUnset", Ether |-> "ether", Fddi |-> "fddi",
     Tr |-> "tr", Wlan |-> "wlan", Ip |-> "ip", Ip6 |-> "ip6",
     Arp |-> "arp", Rarp |-> "rarp", Decnet |-> "decnet"]

filterSubProtocol ==
    [Unset |-> "subUnset", Ip |-> "sub ip", Ip6 |-> "sub ip6",
     Arp |-> "sub arp", Rarp |-> "sub rarp", Atalk |-> "sub atalk",
     Aarp |-> "sub aarp", Decnet |-> "sub decnet", Sca |-> "sub sca",
     Lat |-> "sub lat", Mopdl |-> "sub mopdl", Moprc |-> "sub moprc",
     Iso |-> "sub iso", Stp |-> "sub stp", Ipx |-> "sub ipx",
     Netbeui |-> "sub netbeui", Icmp |-> "sub icmp", Icmp6 |-> "sub icmp6",
     Igmp |-> "sub igmp", Igrp |-> "sub igrp", Pim |-> "sub pim",
     Ah |-> "sub ah", Esp |-> "sub esp", Vrrp |-> "sub vrrp",
     Udp |-> "sub udp", Tcp |-> "sub tcp", Unknown |-> "sub unknown"]

\* the lookup tables, keyed by word
kinds ==
    ("host" :> filterKind.Host) @@ ("net" :> filterKind.Net)
    @@ ("port" :> filterKind.Port) @@ ("portrange" :> filterKind.PortRange)

directions ==
    ("src" :> filterDirection.Src) @@ ("dst" :> filterDirection.Dst)
    @@ ("src and dst" :> filterDirection.SrcAndDst)
    @@ ("src or dst" :> filterDirection.SrcOrDst)
    @@ ("ra" :> filterDirection.Ra) @@ ("ta" :> filterDirection.Ta)
    @@ ("addr1" :> filterDirection.Addr1) @@ ("addr2" :> filterDirection.Addr2)
    @@ ("addr3" :> filterDirection.Addr3) @@ ("addr4" :> filterDirection.Addr4)

protocols ==
    ("ether" :> filterProtocol.Ether) @@ ("fddi" :> filterProtocol.Fddi)
    @@ ("tr" :> filterProtocol.Tr) @@ ("wlan" :> filterProtocol.Wlan)
    @@ ("ip" :> filterProtocol.Ip) @@ ("ip6" :> filterProtocol.Ip6)
    @@ ("arp" :> filterProtocol.Arp) @@ ("rarp" :> filterProtocol.Rarp)
    @@ ("decnett" :> filterProtocol.Decnet)

subProtocols ==
    ("ip" :> filterSubProtocol.Ip) @@ ("ip6" :> filterSubProtocol.Ip6)
    @@ ("arp" :> filterSubProtocol.Arp) @@ ("rarp" :> filterSubProtocol.Rarp)
    @@ ("atalk" :> filterSubProtocol.Atalk) @@ ("aarp" :> filterSubProtocol.Aarp)
    @@ ("decnet" :> filterSubProtocol.Decnet) @@ ("sca" :> filterSubProtocol.Sca)
    @@ ("lat" :> filterSubProtocol.Lat) @@ ("modpl" :> filterSubProtocol.Mopdl)
    @@ ("morpc" :> filterSubProtocol.Moprc) @@ ("iso" :> filterSubProtocol.Iso)
    @@ ("stp" :> filterSubProtocol.Stp) @@ ("ipx" :> filterSubProtocol.Ipx)
    @@ ("netbeui" :> filterSubProtocol.Netbeui) @@ ("icmp" :> filterSubProtocol.Icmp)
    @@ ("icmp6" :> filterSubProtocol.Icmp6) @@ ("igmp" :> filterSubProtocol.Igmp)
    @@ ("igrp" :> filterSubProtocol.Igrp) @@ ("pim" :> filterSubProtocol.Pim)
    @@ ("ah" :> filterSubProtocol.Ah) @@ ("esp" :> filterSubProtocol.Esp)
    @@ ("vrrp" :> filterSubProtocol.Vrrp) @@ ("udp" :> filterSubProtocol.Udp)
    @@ ("tcp" :> filterSubProtocol.Tcp)

\* var combo composite: the zero value
ZeroComposite == [primitives |-> <<>>, and |-> FALSE]

\* a primitive as Expression.Next creates it
NewPrimitive ==
    [kind |-> filterKind.Unset, direction |-> filterDirection.Unset,
     protocol |-> filterProtocol.Unset, subProtocol |-> filterSubProtocol.Unset,
     negator |-> FALSE, id |-> ""]

\* a nil *Expression, a nil filterElement
NilExpression == [nil |-> TRUE, split |-> <<>>, current |-> 0]
NilElement == [type |-> "nil", p |-> NewPrimitive, and |-> FALSE]

-----------------------------------------------------------------------------
(* Instructions (golang.org/x/net/bpf).  One record shape for all:         *)
(*   ld   a load or ALU instruction, control continues at the next one     *)
(*   jif  JumpIf: test is the check made on the frame, jt/jf the uint8     *)
(*        SkipTrue/SkipFalse                                               *)
(*   jmp  Jump: skip is the uint32 Skip                                    *)
(*   ret  RetConstant: val is Val                                          *)

Ld == [op |-> "ld", val |-> 0, test |-> NewPrimitive, jt |-> 0, jf |-> 0, skip |-> <<0, 0>>]
JumpIf(t, st, sf) == [op |-> "jif", val |-> 0, test |-> t, jt |-> st, jf |-> sf, skip |-> <<0, 0>>]
Jump(s) == [op |-> "jmp", val |-> 0, test |-> NewPrimitive, jt |-> 0, jf |-> 0, skip |-> s]
RetConstant(v) == [op |-> "ret", val |-> v, test |-> NewPrimitive, jt |-> 0, jf |-> 0, skip |-> <<0, 0>>]

\* a []bpf.Instruction: nil, or a slice holding s
NilSlice == [nil |-> TRUE, s |-> <<>>]
Slice(s) == [nil |-> FALSE, s |-> s]

Accept == 262144
Drop == 0
returnKeep == RetConstant(Accept)
returnDrop == RetConstant(Drop)

-----------------------------------------------------------------------------
(* primitive.Compile / primitive.Size.  Their code is not in the sources;  *)
(* the model follows the specification: an emitter announces its size      *)
(* before emission, a standalone primitive ends RET(ACCEPT); RET(DROP),    *)
(* earlier instructions reach that pair by relative skips, and negation    *)
(* swaps the two return constants.  Sizes and errors are those of the test *)
(* table for Ethernet.                                                     *)

KnownHosts == {"10.100.100.100", "www.google.com"}
KnownMACs == {"aa:bb:cc:dd:ee:ff"}
KnownNets == {"192.168.0.0/24"}
KnownPorts == {"22", "23", "53", "67", "ftp", "ftp-data", "domain", "ssh"}

OneWay(d) == d \in {filterDirection.Src, filterDirection.Dst}

primitiveErr(p) ==
    CASE p.subProtocol = filterSubProtocol.Unknown -> "unknown protocol " \o p.id
      [] p.kind = filterKind.Unset /\ p.subProtocol = filterSubProtocol.Unset -> "parse error"
      [] p.kind = filterKind.Host /\ p.id = "" -> "blank host"
      [] p.kind = filterKind.Host /\ p.protocol = filterProtocol.Ether /\ p.id \notin KnownMACs ->
            "invalid ethernet address: " \o p.id
      [] p.kind = filterKind.Host /\ p.protocol /= filterProtocol.Ether /\ p.id \notin KnownHosts ->
            "unknown host: " \o p.id
      [] p.kind = filterKind.Port /\ p.id \notin KnownPorts -> "invalid port: " \o p.id
      [] p.kind = filterKind.Net /\ p.id \notin KnownNets -> "invalid net: " \o p.id
      [] p.kind = filterKind.PortRange -> "invalid net: " \o p.id
      [] OTHER -> NoErr

primitiveSize(p) ==
    CASE p.kind = filterKind.Port ->
            (IF OneWay(p.direction) THEN 20 ELSE 24)
            - (IF p.subProtocol \in {filterSubProtocol.Tcp, filterSubProtocol.Udp} THEN 4 ELSE 0)
      [] p.kind = filterKind.Net -> IF OneWay(p.direction) THEN 12 ELSE 18
      [] p.kind = filterKind.Host /\ p.protocol = filterProtocol.Ether ->
            IF OneWay(p.direction) THEN 6 ELSE 10
      [] p.kind = filterKind.Host /\ p.id = "www.google.com" ->
            IF OneWay(p.direction) THEN 19 ELSE 31
      [] p.kind = filterKind.Host /\ p.protocol = filterProtocol.Unset ->
            IF OneWay(p.direction) THEN 10 ELSE 14
      [] p.kind = filterKind.Host -> IF OneWay(p.direction) THEN 6 ELSE 8
      [] p.kind = filterKind.Unset /\ p.protocol = filterProtocol.Unset -> 12
      [] p.kind = filterKind.Unset /\ p.protocol = filterProtocol.Ether -> 4
      [] OTHER -> 6

\* the check a primitive's bytecode makes on the frame: the primitive without "not"
PredOf(p) == [p EXCEPT !.negator = FALSE]

Fill(n) == [j \in 1..n |-> Ld]

\* the terminal pair; swapped under negation
Terminal(p) == IF p.negator THEN <<returnDrop, returnKeep>> ELSE <<returnKeep, returnDrop>>

\* S instructions: a load, the test (match: skip to the second-to-last
\* instruction, mismatch: skip to the last), further loads, the terminal pair
primitiveCompile(p) ==
    IF primitiveErr(p) /= NoErr THEN [inst |-> <<>>, err |-> primitiveErr(p)]
    ELSE [inst |-> <<Ld, JumpIf(PredOf(p), primitiveSize(p) - 4, primitiveSize(p) - 3)>>
                    \o Fill(primitiveSize(p) - 4) \o Terminal(p),
          err |-> NoErr]

-----------------------------------------------------------------------------
(* composite.Size and composite.Compile.                                   *)

\* func (c composite) Size() uint8: size += p.Size() in uint8, child by child
RECURSIVE SizeFrom(_, _, _)
SizeFrom(ps, k, acc) ==
    IF k > Len(ps) THEN acc
    ELSE SizeFrom(ps, k + 1, Uint8(acc + primitiveSize(ps[k])))

compositeSize(cc) == SizeFrom(cc.primitives, 1, 0)

StripReturnsKeepsAll(pinst) == pinst

\* pinst = pinst[:len(pinst)-2]
StripReturns(pinst) == SubSeq(pinst, 1, Len(pinst) - 2)

\* the two jumps appended after a child that is not the last one; n is
\* len(inst) when the first is appended, so the second sees len(inst) = n + 1
JoinJumps(isAnd, sz, n) ==
    IF isAnd
    THEN <<Jump(ToUint32(1)), Jump(ToUint32(sz - (n + 1) - 2))>>
    ELSE <<Jump(ToUint32(sz - n - 3)), Jump(ToUint32(0))>>

OnChildErrorKeepsPrefix(acc, err) == [inst |-> Slice(acc), err |-> err, stop |-> TRUE]

\* if err != nil { return nil, err }
OnChildError(acc, err) == [inst |-> NilSlice, err |-> err, stop |-> TRUE]

\* one iteration of "for i, p := range c.primitives": acc is inst so far
CompileChild(cc, k, acc, sz) ==
    LET r == primitiveCompile(cc.primitives[k]) IN
    IF r.err /= NoErr THEN OnChildError(acc, r.err)
    ELSE IF k = Len(cc.primitives)
         THEN [inst |-> Slice(acc \o r.inst), err |-> NoErr, stop |-> FALSE]
         ELSE [inst |-> Slice(acc \o StripReturns(r.inst)
                                  \o JoinJumps(cc.and, sz, Len(acc) + Len(r.inst) - 2)),
               err |-> NoErr, stop |-> FALSE]

\* the whole function, as the loop runs it
RECURSIVE CompileFrom(_, _, _, _)
CompileFrom(cc, k, acc, sz) ==
    IF k > Len(cc.primitives) THEN [inst |-> Slice(acc), err |-> NoErr]
    ELSE LET r == CompileChild(cc, k, acc, sz) IN
         IF r.stop THEN [inst |-> r.inst, err |-> r.err]
         ELSE CompileFrom(cc, k + 1, r.inst.s, sz)

compositeCompile(cc) == CompileFrom(cc, 1, <<>>, compositeSize(cc))

-----------------------------------------------------------------------------
(* The classic-BPF machine: runs a program on a frame.  A frame is the set *)
(* of checks it satisfies.  A program the kernel refuses, or that runs    *)
(* off its end (a jump past the last instruction, no return), yields -1,   *)
(* which is neither ACCEPT nor DROP.                                       *)

RECURSIVE RunFrom(_, _, _)
RunFrom(prog, f, pos) ==
    IF pos >= Len(prog) THEN -1
    ELSE LET in == prog[pos + 1] IN
         CASE in.op = "ret" -> in.val
           [] in.op = "ld" -> RunFrom(prog, f, pos + 1)
           [] in.op = "jif" -> RunFrom(prog, f, pos + 1 + (IF in.test \in f THEN in.jt ELSE in.jf))
           [] in.op = "jmp" -> IF in.skip[1] /= 0 THEN -1
                               ELSE RunFrom(prog, f, pos + 1 + in.skip[2])

Run(prog, f) == RunFrom(prog, f, 0)

-----------------------------------------------------------------------------
(* Inputs of composite.Compile.                                            *)

portPrimitive(id) ==
    [NewPrimitive EXCEPT !.kind = filterKind.Port, !.direction = filterDirection.SrcOrDst, !.id = id]
hostPrimitive(id) ==
    [NewPrimitive EXCEPT !.kind = filterKind.Host, !.direction = filterDirection.SrcOrDst, !.id = id]
Not(p) == [p EXCEPT !.negator = TRUE]

\* "port 23" (24 instructions), "host www.google.com" (31), their negations,
\* and "host abc" and "port foo", which do not compile (unknown host, invalid port)
PrimSet == {portPrimitive("23"), Not(portPrimitive("23")),
            hostPrimitive("www.google.com"), Not(hostPrimitive("www.google.com")),
            hostPrimitive("abc"), portPrimitive("foo")}
LongSet == {portPrimitive("23"), hostPrimitive("www.google.com")}

SeqsOfLen(S, n) == [1..n -> S]
Children ==
    UNION {SeqsOfLen(PrimSet, n) : n \in 0..MaxChildren}
    \cup UNION {SeqsOfLen(LongSet, n) : n \in (MaxChildren + 1)..MaxLong}

Frames == SUBSET {PredOf(p) : p \in LongSet}

-----------------------------------------------------------------------------
(* The expression parser (expression.go).  A filter string is a sequence   *)
(* of chunks: the blank " " and pieces of text without blanks.  Adjacent   *)
(* pieces belong to the same word, so "(" followed by "port" is the word   *)
(* "(port".  A word of e.split is kept as the sequence of its pieces.      *)

Blank == " "
Backslash == "\\"

\* the text of a word
RECURSIVE Str(_)
Str(w) == IF w = <<>> THEN "" ELSE w[1] \o Str(Tail(w))

\* strings.Fields: the maximal runs of non-blank chunks
RECURSIVE FieldsFrom(_, _, _, _)
FieldsFrom(s, k, cur, out) ==
    IF k > Len(s) THEN (IF cur = <<>> THEN out ELSE Append(out, cur))
    ELSE IF s[k] = Blank
         THEN FieldsFrom(s, k + 1, <<>>, IF cur = <<>> THEN out ELSE Append(out, cur))
         ELSE FieldsFrom(s, k + 1, Append(cur, s[k]), out)

Fields(s) == FieldsFrom(s, 1, <<>>, <<>>)

\* strings.TrimLeft(w, "\\"): no piece but Backslash starts with a backslash
RECURSIVE TrimLeft(_)
TrimLeft(w) == IF w /= <<>> /\ w[1] = Backslash THEN TrimLeft(Tail(w)) ELSE w

NewExpression(s) ==
    IF s = <<>> THEN NilExpression
    ELSE [nil |-> FALSE, split |-> Fields(s), current |-> 0]

\* (a variant that still reports a word when all are consumed)
HasNextAtEnd(ex) == Len(ex.split) >= ex.current

\* func (e *Expression) HasNext() bool
HasNext(ex) == Len(ex.split) > ex.current

primitiveElement(p) == [type |-> "primitive", p |-> p, and |-> FALSE]
joinerElement(a) == [type |-> "and", p |-> NewPrimitive, and |-> a]

\* the word is looked up in kinds, directions, protocols, subProtocols, in this order
classify(p, word) ==
    IF word \in DOMAIN kinds THEN [p EXCEPT !.kind = kinds[word]]
    ELSE IF word \in DOMAIN directions THEN [p EXCEPT !.direction = directions[word]]
    ELSE IF word \in DOMAIN protocols THEN [p EXCEPT !.protocol = protocols[word]]
    ELSE IF word \in DOMAIN subProtocols THEN [p EXCEPT !.subProtocol = subProtocols[word]]
    ELSE [p EXCEPT !.id = word]

\* case "proto": the next word is the sub-protocol
protoWord(p, protoName) ==
    IF protoName \in DOMAIN subProtocols
    THEN [p EXCEPT !.subProtocol = subProtocols[protoName]]
    ELSE [p EXCEPT !.subProtocol = filterSubProtocol.Unknown, !.id = protoName]

\* the words loop of Next; cur is e.current (0-based), split[cur + 1] the word
RECURSIVE words(_, _, _, _)
words(split, p, startCount, cur) ==
    IF ~(Len(split) > cur) THEN [fe |-> primitiveElement(p), current |-> cur]
    ELSE LET word == Str(split[cur + 1]) IN
         CASE word \in {"and", "or"} ->
                IF cur /= startCount THEN [fe |-> primitiveElement(p), current |-> cur]
                ELSE [fe |-> joinerElement(word = "and"), current |-> cur + 1]
           [] word = "not" ->
                words(split, [p EXCEPT !.negator = TRUE], startCount, cur + 1)
           [] word = "gateway" ->
                words(split, [p EXCEPT !.protocol = filterProtocol.Ether, !.kind = filterKind.Host],
                      startCount, cur + 1)
           [] word = "proto" ->
                IF Len(split) <= cur + 1 THEN words(split, p, startCount, cur + 1)
                ELSE words(split, protoWord(p, Str(TrimLeft(split[cur + 2]))), startCount, cur + 2)
           [] OTHER ->
                LET fold == /\ word = "src"
                            /\ Len(split) > cur + 2
                            /\ Str(split[cur + 2]) \in {"or", "and"}
                    joined == IF fold
                              THEN word \o " " \o Str(split[cur + 2]) \o " " \o Str(split[cur + 3])
                              ELSE word
                IN words(split, classify(p, joined), startCount,
                         (IF fold THEN cur + 2 ELSE cur) + 1)

\* Expression.Next: the element returned and e.current afterwards
ExpressionNext(ex) ==
    IF ~HasNext(ex) THEN [fe |-> NilElement, current |-> ex.current]
    ELSE words(ex.split, NewPrimitive, ex.current, ex.current)

\* (a variant without the carry-forward block)
carryForwardNone(p, last) == p

\* the carry-forward block of setPrimitiveDefaults
carryForward(p, last) ==
    IF /\ p.direction = filterDirection.Unset /\ p.protocol = filterProtocol.Unset
       /\ p.kind = filterKind.Unset /\ p.subProtocol = filterSubProtocol.Unset
    THEN [p EXCEPT !.direction = last.direction, !.kind = last.kind,
                   !.protocol = last.protocol, !.subProtocol = last.subProtocol]
    ELSE p

\* (a variant without the special cases: the primitive is left as parsed)
specialCasesNone(p) == p

\* the special cases of setPrimitiveDefaults, in the order of the code
specialCases(p) ==
    LET p1 == IF /\ p.subProtocol \in {filterSubProtocol.Udp, filterSubProtocol.Tcp,
                                       filterSubProtocol.Icmp}
                 /\ p.protocol = filterProtocol.Unset
              THEN [p EXCEPT !.protocol = filterProtocol.Ip] ELSE p
        p2 == IF /\ p1.kind = filterKind.Unset
                 /\ p1.direction /= filterDirection.Unset
                 /\ p1.protocol \in {filterProtocol.Ether, filterProtocol.Ip, filterProtocol.Ip6,
                                     filterProtocol.Arp, filterProtocol.Rarp}
              THEN [p1 EXCEPT !.kind = filterKind.Host] ELSE p1
        p3 == IF p2.direction = filterDirection.Unset
              THEN [p2 EXCEPT !.direction = filterDirection.SrcOrDst] ELSE p2
    IN IF p3.kind = filterKind.Unset /\ p3.protocol = filterProtocol.Unset
       THEN [p3 EXCEPT !.kind = filterKind.Host] ELSE p3

\* a nil *primitive
NilPrimitive == [nil |-> TRUE, p |-> NewPrimitive]

\* lastPrimitive: nil, or the last primitive of combo
lastPrimitive(cmb) ==
    IF Len(cmb.primitives) > 0
    THEN [nil |-> FALSE, p |-> cmb.primitives[Len(cmb.primitives)]]
    ELSE NilPrimitive

setPrimitiveDefaults(p, last) ==
    IF /\ p.direction = filterDirection.Unset /\ p.protocol = filterProtocol.Unset
       /\ p.kind = filterKind.Unset /\ p.subProtocol = filterSubProtocol.Unset
       /\ last.nil
    THEN p
    ELSE specialCases(carryForward(p, last.p))

\* (a variant in which an "and" once read is kept)
loopBodyKeepAnd(cmb, el) ==
    IF el.type = "primitive"
    THEN [cmb EXCEPT !.primitives = Append(@, setPrimitiveDefaults(el.p, lastPrimitive(cmb)))]
    ELSE [cmb EXCEPT !.and = @ \/ el.and]

\* the body of the loop of Expression.Compile for a non-nil element
loopBody(cmb, el) ==
    IF el.type = "primitive"
    THEN [cmb EXCEPT !.primitives = Append(@, setPrimitiveDefaults(el.p, lastPrimitive(cmb)))]
    ELSE [cmb EXCEPT !.and = el.and]

\* a Filter: a primitive (the only element of primitives) or a composite
primitiveFilter(p) == [type |-> "primitive", primitives |-> <<p>>, and |-> FALSE]
compositeFilter(cmb) == [type |-> "composite", primitives |-> cmb.primitives, and |-> cmb.and]
NoFilter == [type |-> "none", primitives |-> <<>>, and |-> FALSE]

\* is there just one element?
compileResult(cmb) ==
    IF Len(cmb.primitives) = 1 THEN primitiveFilter(cmb.primitives[1])
    ELSE compositeFilter(cmb)

\* Expression.Compile on a non-nil receiver, as one function
RECURSIVE compileLoop(_, _)
compileLoop(ex, cmb) ==
    LET r == ExpressionNext(ex) IN
    IF r.fe.type = "nil" THEN compileResult(cmb)
    ELSE compileLoop([ex EXCEPT !.current = r.current], loopBody(cmb, r.fe))

ExpressionCompile(ex) == compileLoop(ex, ZeroComposite)

\* Filter.Compile of what Expression.Compile returned
filterCompile(f) ==
    IF f.type = "primitive"
    THEN LET r == primitiveCompile(f.primitives[1]) IN
         [inst |-> IF r.err /= NoErr THEN NilSlice ELSE Slice(r.inst), err |-> r.err]
    ELSE compositeCompile([primitives |-> f.primitives, and |-> f.and])

-----------------------------------------------------------------------------
(* Specification Spec: composite.Compile run step by step on a composite,  *)
(* then the emitted program run on a frame.                                *)

\* goroutines calling Handle.Close
NumClosers == 2
Closers == 1..NumClosers

\* no handle is open
HandleIdle ==
    /\ h = [fd |-> "none", closes |-> 0, onceDone |-> FALSE, onceM |-> 0,
            closed |-> FALSE, timeout |-> FALSE]
    /\ cpc = [k \in Closers |-> "none"]
    /\ rd = [pc |-> "none", res |-> "none", after |-> FALSE]
    /\ ctx = FALSE

\* no call of readPacketDataSyscall is under way
ReadIdle ==
    rs = [pc |-> "idle", res |-> "none", w |-> "none", rfd |-> "none", wfd |-> "none",
          done |-> FALSE, byte |-> FALSE, cancelled |-> FALSE, packet |-> FALSE,
          timeout |-> FALSE, both |-> FALSE, badWrite |-> FALSE]

\* no call of openLive is under way
OpenIdle ==
    ol = [os |-> "none", pc |-> "idle", fd |-> "none", dev |-> 0, devs |-> <<>>,
          iface |-> FALSE, promiscuous |-> FALSE, syscalls |-> FALSE,
          step |-> 0, res |-> "none", at |-> "none"]

\* no ring is set up
RingIdle ==
    mm = [pc |-> "idle", endian |-> "none", frameSize |-> 0, blockSize |-> 0,
          framesPerBuffer |-> 0, frameNumbers |-> 0, frameIndex |-> 0, framePtr |-> 0,
          ring |-> <<>>, khead |-> 0, left |-> -1, slot |-> 0, res |-> "none"]

SysIdle == ReadIdle /\ OpenIdle /\ RingIdle

\* no check block is being emitted
BlockIdle ==
    /\ blk = [kind |-> "none", direction |-> filterDirection.Unset, fail |-> 0, succeed |-> 0,
              m |-> 0, source |-> FALSE, frame |-> {}]
    /\ binst = <<>> /\ bpos = 0 /\ bacc = "" /\ bpc = "idle"

DefIdle == prim = NewPrimitive /\ orig = NewPrimitive /\ lastPrim = NilPrimitive /\ once = NewPrimitive /\ dpc = "idle"

ExprIdle ==
    /\ raw = <<>> /\ e = NilExpression /\ combo = ZeroComposite /\ epc = "idle"
    /\ fe = NilElement /\ filter = NoFilter /\ calls = 0
    /\ finst = NilSlice /\ ferr = NoErr

Init ==
    /\ c \in {[primitives |-> ps, and |-> a] : ps \in Children, a \in BOOLEAN}
    /\ pc = "enter"
    /\ i = 0
    /\ inst = <<>>
    /\ size = 0
    /\ retInst = NilSlice
    /\ retErr = NoErr
    /\ frame = {}
    /\ verdict = -1
    /\ ExprIdle
    /\ DefIdle
    /\ HandleIdle
    /\ BlockIdle
    /\ SysIdle

\* inst := []bpf.Instruction{}; size := uint32(c.Size())
CompileEnter ==
    /\ pc = "enter"
    /\ inst' = <<>>
    /\ size' = compositeSize(c)
    /\ i' = 1
    /\ pc' = "loop"
    /\ UNCHANGED <<c, retInst, retErr, frame, verdict>>
    /\ UNCHANGED exprVars
    /\ UNCHANGED defVars
    /\ UNCHANGED handleVars
    /\ UNCHANGED blockVars
    /\ UNCHANGED sysVars

\* one iteration of the loop over c.primitives
CompileLoop ==
    /\ pc = "loop"
    /\ i <= Len(c.primitives)
    /\ LET r == CompileChild(c, i, inst, size) IN
       IF r.stop
       THEN /\ retInst' = r.inst
            /\ retErr' = r.err
            /\ pc' = "done"
            /\ UNCHANGED <<inst, i>>
       ELSE /\ inst' = r.inst.s
            /\ i' = i + 1
            /\ UNCHANGED <<retInst, retErr, pc>>
    /\ UNCHANGED <<c, size, frame, verdict>>
    /\ UNCHANGED exprVars
    /\ UNCHANGED defVars
    /\ UNCHANGED handleVars
    /\ UNCHANGED blockVars
    /\ UNCHANGED sysVars

\* return inst, nil
CompileReturn ==
    /\ pc = "loop"
    /\ i > Len(c.primitives)
    /\ retInst' = Slice(inst)
    /\ retErr' = NoErr
    /\ pc' = "done"
    /\ UNCHANGED <<c, i, inst, size, frame, verdict>>
    /\ UNCHANGED exprVars
    /\ UNCHANGED defVars
    /\ UNCHANGED handleVars
    /\ UNCHANGED blockVars
    /\ UNCHANGED sysVars

\* the returned program is run on a frame
RunFilter ==
    /\ pc = "done"
    /\ retErr = NoErr
    /\ \E f \in Frames :
        /\ frame' = f
        /\ verdict' = Run(retInst.s, f)
    /\ pc' = "ran"
    /\ UNCHANGED <<c, i, inst, size, retInst, retErr>>
    /\ UNCHANGED exprVars
    /\ UNCHANGED defVars
    /\ UNCHANGED handleVars
    /\ UNCHANGED blockVars
    /\ UNCHANGED sysVars

Next == CompileEnter \/ CompileLoop \/ CompileReturn \/ RunFilter

Spec == Init /\ [][Next]_vars

-----------------------------------------------------------------------------
(* Specification SpecExpr: a filter string goes through NewExpression,     *)
(* Expression.Compile (one call of Next per step) and Filter.Compile, and  *)
(* the emitted program is run on a frame.                                  *)

\* longest filter string, in chunks, drawn from every chunk of Vocabulary
MaxRaw == 3

Vocabulary ==
    {Blank, Backslash, "and", "or", "not", "src", "dst", "host", "port", "udp",
     "ether", "proto", "23", "abc"}

\* the words separated by single blanks
RECURSIVE Spaced(_)
Spaced(ws) ==
    IF Len(ws) <= 1 THEN ws ELSE <<ws[1], Blank>> \o Spaced(Tail(ws))

\* expressions of the test table
UdpAndPort23 == <<"udp", Blank, "and", Blank, "port", Blank, "23">>
UdpPort23 == <<"udp", Blank, "port", Blank, "23">>
HostAbcAndSrcAbc == <<"host", Blank, "abc", Blank, "and", Blank, "src", Blank, "abc">>
SrcHostAbc == <<"src", Blank, "host", Blank, "abc">>
HostAHostB == <<"host", Blank, "a", Blank, "host", Blank, "b">>
UdpAndPort53OrPort67 ==
    <<"udp", Blank, "and", Blank, "(", "port", Blank, "53", Blank, "or", Blank,
      "port", Blank, "67", ")">>
HostOrPort23 == <<"host", Blank, "10.100.100.100", Blank, "or", Blank, "port", Blank, "23">>
TcpDstPortFtp ==
    <<"tcp", Blank, "dst", Blank, "port", Blank, "ftp", Blank, "or", Blank, "ftp-data",
      Blank, "or", Blank, "domain">>
IpProtoTcp == <<"ip", Blank, "proto", Blank, Backslash, "tcp">>

\* the expressions of the end-to-end scenarios, in the order S1..S7
Scenarios ==
    <<Spaced(<<"ip", "host", "10.100.100.100">>),
      Spaced(<<"src", "host", "10.100.100.100">>),
      Spaced(<<"port", "22">>),
      Spaced(<<"net", "192.168.0.0/24">>),
      Spaced(<<"ether", "dst", "aa:bb:cc:dd:ee:ff">>),
      Spaced(<<"ip", "proto", "tcp">>),
      HostOrPort23>>

Corpus ==
    {UdpAndPort23, UdpPort23, HostAbcAndSrcAbc, SrcHostAbc, UdpAndPort53OrPort67,
     HostOrPort23, TcpDstPortFtp, IpProtoTcp, HostAHostB}
    \cup {Scenarios[k] : k \in DOMAIN Scenarios}

\* longest chain "Q id1 J id2 J ... idn" of primitives sharing one qualifier list
MaxChain == 3

\* qualifier lists Q, the bare ids of a chain in order, the joiners J
QualifierLists ==
    {<<"tcp", "dst", "port">>, <<"host">>, <<"src">>, <<"port">>, <<"udp">>, <<"ip">>,
     <<"ether", "src">>}
ChainIds == <<"ftp", "ftp-data", "domain", "ssh", "22", "23">>
Joiners == {"and", "or"}

RECURSIVE ChainTail(_, _, _)
ChainTail(k, n, js) ==
    IF k > n THEN <<>> ELSE <<js[k - 1], ChainIds[k]>> \o ChainTail(k + 1, n, js)

\* the expression "Q id1 J id2 J ... idn"
Chain(q, n, js) == Spaced(q \o <<ChainIds[1]>> \o ChainTail(2, n, js))

Chains ==
    {Chain(q, n, js) : q \in QualifierLists,
                       n \in 2..MaxChain, js \in [1..(MaxChain - 1) -> Joiners]}

\* expressions that start with a direction word, a joiner and one more word
DirectionWords == {"src", "dst"}
DirectionExprs ==
    {Spaced(<<d, j, w>> \o rest) :
        d \in DirectionWords, j \in Joiners, w \in DirectionWords \cup {"host", "abc"},
        rest \in {<<>>, <<"host", "abc">>}}

RawInputs ==
    Corpus \cup Chains \cup DirectionExprs
    \cup UNION {SeqsOfLen(Vocabulary, n) : n \in 0..MaxRaw}

CompIdle ==
    /\ c = ZeroComposite /\ pc = "idle" /\ i = 0 /\ inst = <<>> /\ size = 0
    /\ retInst = NilSlice /\ retErr = NoErr

InitExpr ==
    /\ CompIdle
    /\ DefIdle
    /\ HandleIdle
    /\ frame = {}
    /\ verdict = -1
    /\ raw \in RawInputs
    /\ e = NilExpression
    /\ combo = ZeroComposite
    /\ epc = "new"
    /\ fe = NilElement
    /\ filter = NoFilter
    /\ calls = 0
    /\ finst = NilSlice
    /\ ferr = NoErr
    /\ BlockIdle
    /\ SysIdle

\* e := NewExpression(raw); the caller then calls e.Compile(): var combo composite
ExprNew ==
    /\ epc = "new"
    /\ e' = NewExpression(raw)
    /\ combo' = ZeroComposite
    /\ epc' = "compile"
    /\ UNCHANGED <<raw, fe, filter, calls, finst, ferr, frame, verdict>>
    /\ UNCHANGED <<c, pc, i, inst, size, retInst, retErr>>
    /\ UNCHANGED defVars
    /\ UNCHANGED handleVars
    /\ UNCHANGED blockVars
    /\ UNCHANGED sysVars

\* e.Next() on a nil receiver: HasNext reads e.split through the nil pointer
ExprPanic ==
    /\ epc = "compile"
    /\ e.nil
    /\ epc' = "panic"
    /\ UNCHANGED <<raw, e, combo, fe, filter, calls, finst, ferr, frame, verdict>>
    /\ UNCHANGED <<c, pc, i, inst, size, retInst, retErr>>
    /\ UNCHANGED defVars
    /\ UNCHANGED handleVars
    /\ UNCHANGED blockVars
    /\ UNCHANGED sysVars

\* one iteration of the loop of Expression.Compile: Next returns an element
ExprNext ==
    /\ epc = "compile"
    /\ ~e.nil
    /\ HasNext(e)
    /\ LET r == ExpressionNext(e) IN
       /\ fe' = r.fe
       /\ e' = [e EXCEPT !.current = r.current]
       /\ combo' = loopBody(combo, r.fe)
    /\ calls' = calls + 1
    /\ UNCHANGED <<raw, epc, filter, finst, ferr, frame, verdict>>
    /\ UNCHANGED <<c, pc, i, inst, size, retInst, retErr>>
    /\ UNCHANGED defVars
    /\ UNCHANGED handleVars
    /\ UNCHANGED blockVars
    /\ UNCHANGED sysVars

\* the last iteration: Next returns nil, the loop breaks, Compile returns
ExprBreak ==
    /\ epc = "compile"
    /\ ~e.nil
    /\ ~HasNext(e)
    /\ fe' = ExpressionNext(e).fe
    /\ calls' = calls + 1
    /\ filter' = compileResult(combo)
    /\ epc' = "compiled"
    /\ UNCHANGED <<raw, e, combo, finst, ferr, frame, verdict>>
    /\ UNCHANGED <<c, pc, i, inst, size, retInst, retErr>>
    /\ UNCHANGED defVars
    /\ UNCHANGED handleVars
    /\ UNCHANGED blockVars
    /\ UNCHANGED sysVars

\* the caller compiles the filter to instructions
FilterCompile ==
    /\ epc = "compiled"
    /\ finst' = filterCompile(filter).inst
    /\ ferr' = filterCompile(filter).err
    /\ epc' = "done"
    /\ UNCHANGED <<raw, e, combo, fe, filter, calls, frame, verdict>>
    /\ UNCHANGED <<c, pc, i, inst, size, retInst, retErr>>
    /\ UNCHANGED defVars
    /\ UNCHANGED handleVars
    /\ UNCHANGED blockVars
    /\ UNCHANGED sysVars

\* the frames that matter to a filter: every combination of its checks
FramesOf(f) == SUBSET {PredOf(f.primitives[k]) : k \in 1..Len(f.primitives)}

\* the program is installed and run on a frame
FilterRun ==
    /\ epc = "done"
    /\ ferr = NoErr
    /\ \E f \in FramesOf(filter) :
        /\ frame' = f
        /\ verdict' = Run(finst.s, f)
    /\ epc' = "ran"
    /\ UNCHANGED <<raw, e, combo, fe, filter, calls, finst, ferr>>
    /\ UNCHANGED <<c, pc, i, inst, size, retInst, retErr>>
    /\ UNCHANGED defVars
    /\ UNCHANGED handleVars
    /\ UNCHANGED blockVars
    /\ UNCHANGED sysVars

NextExpr == ExprNew \/ ExprPanic \/ ExprNext \/ ExprBreak \/ FilterCompile \/ FilterRun

SpecExpr == InitExpr /\ [][NextExpr]_vars

-----------------------------------------------------------------------------
(* Specification SpecDefaults: setPrimitiveDefaults applied to a primitive *)
(* once and then once more, with the same lastPrimitive.                   *)

DefKinds == {filterKind.Unset, filterKind.Host, filterKind.Net, filterKind.Port,
             filterKind.PortRange}
DefDirections == {filterDirection.Unset, filterDirection.SrcAndDst, filterDirection.SrcOrDst,
                  filterDirection.Src, filterDirection.Dst, filterDirection.Ra}
DefProtocols == {filterProtocol.Unset, filterProtocol.Ether, filterProtocol.Fddi,
                 filterProtocol.Ip, filterProtocol.Ip6, filterProtocol.Arp,
                 filterProtocol.Rarp, filterProtocol.Decnet}
DefSubProtocols == {filterSubProtocol.Unset, filterSubProtocol.Ip, filterSubProtocol.Udp,
                    filterSubProtocol.Tcp, filterSubProtocol.Icmp, filterSubProtocol.Icmp6,
                    filterSubProtocol.Unknown}

\* the primitives Next can hand to setPrimitiveDefaults
DefPrimitives ==
    {[kind |-> k, direction |-> d, protocol |-> pr, subProtocol |-> sp,
      negator |-> FALSE, id |-> w] :
        k \in DefKinds, d \in DefDirections, pr \in DefProtocols,
        sp \in DefSubProtocols, w \in {"", "abc"}}

\* lastPrimitive: nil, or a primitive that went through setPrimitiveDefaults before
DefLast ==
    {NilPrimitive}
    \cup {[nil |-> FALSE, p |-> setPrimitiveDefaults(q, NilPrimitive)] :
            q \in {[NewPrimitive EXCEPT !.subProtocol = filterSubProtocol.Udp],
                   [NewPrimitive EXCEPT !.protocol = filterProtocol.Ether],
                   [NewPrimitive EXCEPT !.kind = filterKind.Port,
                                        !.direction = filterDirection.Dst,
                                        !.subProtocol = filterSubProtocol.Tcp, !.id = "ftp"],
                   [NewPrimitive EXCEPT !.kind = filterKind.Host, !.id = "abc"]}}

InitDefaults ==
    /\ CompIdle
    /\ frame = {}
    /\ verdict = -1
    /\ ExprIdle
    /\ HandleIdle
    /\ prim \in DefPrimitives
    /\ orig = prim
    /\ lastPrim \in DefLast
    /\ once = NewPrimitive
    /\ dpc = "start"
    /\ BlockIdle
    /\ SysIdle

\* setPrimitiveDefaults(p, lastPrimitive), the first time
DefaultsOnce ==
    /\ dpc = "start"
    /\ prim' = setPrimitiveDefaults(prim, lastPrim)
    /\ once' = setPrimitiveDefaults(prim, lastPrim)
    /\ dpc' = "once"
    /\ UNCHANGED <<orig, lastPrim>>
    /\ UNCHANGED <<compVars, exprVars, handleVars>>
    /\ UNCHANGED blockVars
    /\ UNCHANGED sysVars

\* setPrimitiveDefaults(p, lastPrimitive) again, on the primitive it updated
DefaultsTwice ==
    /\ dpc = "once"
    /\ prim' = setPrimitiveDefaults(prim, lastPrim)
    /\ dpc' = "twice"
    /\ UNCHANGED <<orig, lastPrim, once>>
    /\ UNCHANGED <<compVars, exprVars, handleVars>>
    /\ UNCHANGED blockVars
    /\ UNCHANGED sysVars

NextDefaults == DefaultsOnce \/ DefaultsTwice

SpecDefaults == InitDefaults /\ [][NextDefaults]_vars

-----------------------------------------------------------------------------
(* Specification SpecHandle: an open Handle (pcap_darwinbsd.go), the       *)
(* goroutines that call Close, and a goroutine that calls ReadPacketData   *)
(* (syscalls mode) again and again.  h.fd is a descriptor number; h.fd     *)
(* records what that number refers to in the process:                      *)
(*   "bpf"    the capture device openLive opened                           *)
(*   "free"   nothing (the number was closed)                              *)
(*   "pipe"   the read end of the wake-up pipe of the running read         *)
(*   "other"  a file some other goroutine opened since                     *)
(* A freed number is the one the kernel hands out next.                    *)

InitHandle ==
    /\ CompIdle
    /\ frame = {}
    /\ verdict = -1
    /\ ExprIdle
    /\ DefIdle
    /\ h \in {[fd |-> "bpf", closes |-> 0, onceDone |-> FALSE, onceM |-> 0,
               closed |-> FALSE, timeout |-> t] : t \in BOOLEAN}
    /\ cpc = [k \in Closers |-> "idle"]
    /\ rd = [pc |-> "idle", res |-> "none", after |-> FALSE]
    /\ ctx = FALSE
    /\ BlockIdle
    /\ SysIdle

\* (a variant without the Once: every call runs the function)
onceRunsAlways(done) == TRUE

\* sync.Once.Do: whether f still has to run (checked without and with the lock)
onceRuns(done) == ~done

\* a goroutine calls h.Close(): h.close.Do(...)
CloseCall(k) ==
    /\ cpc[k] \in {"idle", "returned"}
    /\ cpc' = [cpc EXCEPT ![k] = "check"]
    /\ UNCHANGED <<h, rd, ctx>>
    /\ UNCHANGED <<compVars, exprVars, defVars>>
    /\ UNCHANGED blockVars
    /\ UNCHANGED sysVars

\* Once.Do, fast path: done is already set, Do returns
OnceFast(k) ==
    /\ cpc[k] = "check"
    /\ cpc' = [cpc EXCEPT ![k] = IF onceRuns(h.onceDone) THEN "lock" ELSE "returned"]
    /\ UNCHANGED <<h, rd, ctx>>
    /\ UNCHANGED <<compVars, exprVars, defVars>>
    /\ UNCHANGED blockVars
    /\ UNCHANGED sysVars

\* Once.Do, slow path: take the mutex, look at done again
OnceLock(k) ==
    /\ cpc[k] = "lock"
    /\ h.onceM = 0
    /\ IF onceRuns(h.onceDone)
       THEN /\ h' = [h EXCEPT !.onceM = k]
            /\ cpc' = [cpc EXCEPT ![k] = "closefd"]
       ELSE /\ h' = h
            /\ cpc' = [cpc EXCEPT ![k] = "returned"]
    /\ UNCHANGED <<rd, ctx>>
    /\ UNCHANGED <<compVars, exprVars, defVars>>
    /\ UNCHANGED blockVars
    /\ UNCHANGED sysVars

\* _ = unix.Close(h.fd): the number is freed, whatever it referred to
CloseFd(k) ==
    /\ cpc[k] = "closefd"
    /\ h' = [h EXCEPT !.fd = "free", !.closes = @ + 1]
    /\ cpc' = [cpc EXCEPT ![k] = "store"]
    /\ UNCHANGED <<rd, ctx>>
    /\ UNCHANGED <<compVars, exprVars, defVars>>
    /\ UNCHANGED blockVars
    /\ UNCHANGED sysVars

\* h.closed.Store(true); then Once sets done and releases the mutex
CloseStore(k) ==
    /\ cpc[k] = "store"
    /\ h' = [h EXCEPT !.closed = TRUE, !.onceDone = TRUE, !.onceM = 0]
    /\ cpc' = [cpc EXCEPT ![k] = "returned"]
    /\ UNCHANGED <<rd, ctx>>
    /\ UNCHANGED <<compVars, exprVars, defVars>>
    /\ UNCHANGED blockVars
    /\ UNCHANGED sysVars

\* the caller cancels h.context
CtxCancel ==
    /\ ~ctx
    /\ rd.pc /= "none"
    /\ ctx' = TRUE
    /\ UNCHANGED <<h, cpc, rd>>
    /\ UNCHANGED <<compVars, exprVars, defVars>>
    /\ UNCHANGED blockVars
    /\ UNCHANGED sysVars

\* some other goroutine opens a file and is given the freed number
OtherOpen ==
    /\ h.fd = "free"
    /\ h' = [h EXCEPT !.fd = "other"]
    /\ UNCHANGED <<cpc, rd, ctx>>
    /\ UNCHANGED <<compVars, exprVars, defVars>>
    /\ UNCHANGED blockVars
    /\ UNCHANGED sysVars

\* ReadPacketData returns res; the deferred closes free the pipe's numbers
readReturn(res) ==
    /\ rd' = [pc |-> "returned", res |-> res, after |-> h.closes > 0]
    /\ h' = [h EXCEPT !.fd = IF @ = "pipe" THEN "free" ELSE @]

\* h.ReadPacketData() is called: h.buf = make(...)
ReadCall ==
    /\ rd.pc \in {"idle", "returned"}
    /\ rd' = [pc |-> "pipe", res |-> "none", after |-> FALSE]
    /\ UNCHANGED <<h, cpc, ctx>>
    /\ UNCHANGED <<compVars, exprVars, defVars>>
    /\ UNCHANGED blockVars
    /\ UNCHANGED sysVars

\* unix.Pipe: fails, or opens two descriptors; the read end may take a freed h.fd
ReadPipe ==
    /\ rd.pc = "pipe"
    /\ \/ /\ rd' = [pc |-> "returned", res |-> "pipe error", after |-> h.closes > 0]
          /\ h' = h
       \/ /\ rd' = [rd EXCEPT !.pc = "poll"]
          /\ \/ h' = h
             \/ h.fd = "free" /\ h' = [h EXCEPT !.fd = "pipe"]
    /\ UNCHANGED <<cpc, ctx>>
    /\ UNCHANGED <<compVars, exprVars, defVars>>
    /\ UNCHANGED blockVars
    /\ UNCHANGED sysVars

\* unix.Poll returns and the call returns without reading: EINTR, the timeout
\* (h.timeout > 0), or the wake-up pipe is readable (the context is cancelled)
ReadPollReturn ==
    /\ rd.pc = "poll"
    /\ \/ readReturn(IF ctx THEN "context error" ELSE "nil error")
       \/ h.timeout /\ readReturn("deadline exceeded")
       \/ ctx /\ readReturn("context error")
    /\ UNCHANGED <<cpc, ctx>>
    /\ UNCHANGED <<compVars, exprVars, defVars>>
    /\ UNCHANGED blockVars
    /\ UNCHANGED sysVars

\* unix.Poll returns with only pfd[0] (h.fd) flagged: a packet on the device,
\* POLLNVAL for a number that is closed, or input on the file now behind it
ReadPollReady ==
    /\ rd.pc = "poll"
    /\ h.fd \in {"bpf", "free", "other"}
    /\ rd' = [rd EXCEPT !.pc = "read"]
    /\ UNCHANGED <<h, cpc, ctx>>
    /\ UNCHANGED <<compVars, exprVars, defVars>>
    /\ UNCHANGED blockVars
    /\ UNCHANGED sysVars

\* unix.Read(h.fd, h.buf) and the return
ReadRead ==
    /\ rd.pc = "read"
    /\ \/ h.fd = "bpf" /\ readReturn("packet")
       \/ h.fd = "free" /\ readReturn("error reading")
       \/ h.fd \in {"pipe", "other"} /\ readReturn("bytes of another file")
       \/ h.fd /= "free" /\ readReturn("read no packets")
    /\ UNCHANGED <<cpc, ctx>>
    /\ UNCHANGED <<compVars, exprVars, defVars>>
    /\ UNCHANGED blockVars
    /\ UNCHANGED sysVars

NextHandle ==
    \/ \E k \in Closers : CloseCall(k) \/ OnceFast(k) \/ OnceLock(k) \/ CloseFd(k) \/ CloseStore(k)
    \/ CtxCancel \/ OtherOpen
    \/ ReadCall \/ ReadPipe \/ ReadPollReturn \/ ReadPollReady \/ ReadRead

SpecHandle == InitHandle /\ [][NextHandle]_vars

-----------------------------------------------------------------------------
(* Claims about composite.Compile (specification Spec).                    *)

Done == pc \in {"done", "ran"}
Compiled == Done /\ retErr = NoErr
NumChildren == Len(c.primitives)

RECURSIVE SumSizes(_, _)
SumSizes(ps, k) == IF k > Len(ps) THEN 0 ELSE primitiveSize(ps[k]) + SumSizes(ps, k + 1)

NoNegator == \A k \in 1..NumChildren : ~c.primitives[k].negator
FirstFailing(k) ==
    /\ primitiveErr(c.primitives[k]) /= NoErr
    /\ \A j \in 1..(k - 1) : primitiveErr(c.primitives[j]) = NoErr

\* C1: for every composite that compiles without error, the number of
\* instructions Compile() returns equals the uint8 value Size() announces.
C1_LenEqualsSize == Compiled => Len(retInst.s) = compositeSize(c)

\* C2: for n >= 2 children (none negated, each transferring control to its
\* second-to-last slot on match and to its last slot on mismatch), running the
\* emitted program returns ACCEPT exactly when all children match (AND) or at
\* least one matches (OR), and DROP otherwise.
C2_VerdictIsJoin ==
    (pc = "ran" /\ NumChildren >= 2 /\ NoNegator) =>
        verdict = IF (IF c.and
                      THEN \A k \in 1..NumChildren : PredOf(c.primitives[k]) \in frame
                      ELSE \E k \in 1..NumChildren : PredOf(c.primitives[k]) \in frame)
                  THEN Accept ELSE Drop

\* C3: every instruction stream a successful Compile() returns ends with
\* RetConstant 0x40000 followed by RetConstant 0 and holds no other return,
\* a composite with no children included.
C3_EndsAcceptDrop ==
    Compiled =>
        /\ Len(retInst.s) >= 2
        /\ retInst.s[Len(retInst.s) - 1] = returnKeep
        /\ retInst.s[Len(retInst.s)] = returnDrop
        /\ \A j \in 1..(Len(retInst.s) - 2) : retInst.s[j].op /= "ret"

\* C4: in every compiled stream every jump at index i has a skip s with
\* i + 1 + s < len(output), whatever the number of children and their sizes.
C4_JumpsInRange ==
    Compiled =>
        \A j \in 1..Len(retInst.s) :
            /\ retInst.s[j].op = "jif" =>
                  /\ (j - 1) + 1 + retInst.s[j].jt < Len(retInst.s)
                  /\ (j - 1) + 1 + retInst.s[j].jf < Len(retInst.s)
            /\ retInst.s[j].op = "jmp" => InRange(j - 1, retInst.s[j].skip, Len(retInst.s))

\* C5 as stated: the number of emitted instructions is the sum of the
\* children's announced sizes plus 2(n-1) plus 2.
C5_AsStated ==
    Compiled => Len(retInst.s) = SumSizes(c.primitives, 1) + 2 * (NumChildren - 1) + 2

\* C5 amended: the number of emitted instructions is exactly the sum of the
\* children's announced sizes (each child but the last loses its two returns
\* and gains two jumps; the last keeps its terminal pair).
C5_LenIsSumOfSizes == Compiled => Len(retInst.s) = SumSizes(c.primitives, 1)

C5_Witness == Compiled /\ NumChildren >= 3 /\ SumSizes(c.primitives, 1) > 255

\* whether the frame satisfies the primitive, "not" included
Holds(p, f) == (PredOf(p) \in f) /= p.negator

\* C6: with negation done by swapping a primitive's terminal pair, the program
\* emitted for a two-child composite with one negated child ("not A and B",
\* "A and not B", "not A or B", "A or not B") accepts exactly the frames for
\* which that boolean expression holds.
C6_NegationKept ==
    (pc = "ran" /\ NumChildren = 2
        /\ c.primitives[1].negator /= c.primitives[2].negator
        /\ PredOf(c.primitives[1]) /= PredOf(c.primitives[2])) =>
        verdict = IF (IF c.and
                      THEN Holds(c.primitives[1], frame) /\ Holds(c.primitives[2], frame)
                      ELSE Holds(c.primitives[1], frame) \/ Holds(c.primitives[2], frame))
                  THEN Accept ELSE Drop

\* C7: if compiling a child fails, composite.Compile returns the error of the
\* first failing child together with a nil slice, never a prefix made of the
\* children compiled before it.
C7_ErrorNoPartial ==
    Done =>
        /\ \A k \in 1..NumChildren :
              FirstFailing(k) => retInst = NilSlice /\ retErr = primitiveErr(c.primitives[k])
        /\ retErr /= NoErr => retInst = NilSlice

C7_Witness ==
    /\ pc = "done"
    /\ NumChildren = 3
    /\ primitiveErr(c.primitives[1]) = NoErr
    /\ FirstFailing(2)
    /\ primitiveErr(c.primitives[3]) \notin {NoErr, primitiveErr(c.primitives[2])}
    /\ retErr = primitiveErr(c.primitives[2])

-----------------------------------------------------------------------------
(* Claims about the pipeline from a filter string to instructions          *)
(* (specification SpecExpr).                                               *)

Finished == epc \in {"done", "ran", "panic"}
CompiledExpr == epc \in {"done", "ran"}

\* C8: compiling the empty filter string, or a string made only of
\* whitespace, succeeds and yields exactly one instruction, RET(ACCEPT).
C8_EmptyIsAcceptAll ==
    (Finished /\ Fields(raw) = <<>>) =>
        /\ epc /= "panic"
        /\ ferr = NoErr
        /\ ~finst.nil
        /\ Len(finst.s) = 1
        /\ finst.s[1].op = "ret"
        /\ finst.s[1].val = Accept

\* the pairs "A and B", "C" of the test table where C is the merged form of A and B
MergePairs == {<<UdpAndPort23, UdpPort23>>, <<HostAbcAndSrcAbc, SrcHostAbc>>}

\* C9: for a merge-eligible pair A, B with merged form C, the expression
\* "A and B" gives the same filter and the same instruction stream as "C"
\* ("udp and port 23" as "udp port 23", "host abc and src abc" as
\* "src host abc").
C9_MergedPairSame ==
    CompiledExpr =>
        \A pair \in MergePairs :
            raw = pair[1] =>
                LET merged == ExpressionCompile(NewExpression(pair[2])) IN
                /\ filter = merged
                /\ finst = filterCompile(merged).inst
                /\ ferr = filterCompile(merged).err

udpPrimitive == setPrimitiveDefaults([NewPrimitive EXCEPT !.subProtocol = filterSubProtocol.Udp],
                                     lastPrimitive(ZeroComposite))

\* C10: "udp and (port 53 or port 67)" yields an AND composite of two
\* children, the udp primitive and the OR composite of "port 53" and
\* "port 67" (ids "53" and "67"), and its bytecode accepts exactly the
\* frames that are UDP and have port 53 or 67.
C10_NestedComposite ==
    (CompiledExpr /\ raw = UdpAndPort53OrPort67) =>
        /\ filter.type = "composite"
        /\ filter.and
        /\ Len(filter.primitives) = 2
        /\ filter.primitives[1] = udpPrimitive
        /\ \A k \in 1..Len(combo.primitives) : combo.primitives[k].id \in {"", "53", "67"}
        /\ ferr = NoErr
        /\ epc = "ran" =>
            verdict = IF /\ PredOf(udpPrimitive) \in frame
                         /\ \E k \in 2..Len(combo.primitives) : PredOf(combo.primitives[k]) \in frame
                      THEN Accept ELSE Drop

Returned == epc \in {"compiled", "done", "ran"}

\* the qualifier list of a primitive
Qualifiers(p) == <<p.kind, p.direction, p.protocol, p.subProtocol>>

\* C11: in an expression "Q id1 J id2 J ... idn" where only the first
\* primitive carries the qualifier list Q, after Expression.Compile every
\* primitive has the kind, direction, protocol and sub-protocol of the first
\* one and keeps its own id.
C11_CarryForwardChain ==
    Returned =>
        \A q \in QualifierLists, n \in 2..MaxChain, js \in [1..(MaxChain - 1) -> Joiners] :
            raw = Chain(q, n, js) =>
                /\ Len(filter.primitives) = n
                /\ \A k \in 1..n :
                      /\ Qualifiers(filter.primitives[k]) = Qualifiers(filter.primitives[1])
                      /\ filter.primitives[k].id = ChainIds[k]

\* the primitives that name only an L4 sub-protocol: bare "udp", "udp port 23"
BareL4 == {<<"udp">>, UdpPort23}

\* C12: a primitive that names only an L4 sub-protocol comes out of
\* Expression.Compile with protocol UNSET and the sub-protocol set.
C12_L4ProtocolUnset ==
    (Returned /\ raw \in BareL4) =>
        /\ filter.type = "primitive"
        /\ filter.primitives[1].subProtocol = filterSubProtocol.Udp
        /\ filter.primitives[1].protocol = filterProtocol.Unset

-----------------------------------------------------------------------------
(* Claims about setPrimitiveDefaults (specification SpecDefaults).         *)

\* C13: the defaulting rules are idempotent: for every primitive, with the
\* same preceding primitive or none, setPrimitiveDefaults applied twice gives
\* the same primitive as applied once.
C13_DefaultsIdempotent == dpc = "twice" => prim = once

-----------------------------------------------------------------------------
(* Claims about Expression.Next (specification SpecExpr).                  *)

\* the state right after the first call of Next
FirstNext == epc = "compile" /\ calls = 1

\* the text of the k-th word of the expression
Word(k) == Str(e.split[k])

\* C14: when the current token is "src" or "dst", followed by "or"/"and"
\* and then by "dst"/"src", Next consumes the three tokens as one compound
\* direction of the primitive being built, for either leading word; a "src"
\* followed by a joiner and then by any other token is not folded.
C14_CompoundDirection ==
    (FirstNext /\ Len(e.split) >= 3 /\ Word(1) \in DirectionWords /\ Word(2) \in Joiners) =>
        /\ (Word(3) \in DirectionWords \ {Word(1)}) =>
              /\ fe.type = "primitive"
              /\ fe.p.direction = IF Word(2) = "or" THEN filterDirection.SrcOrDst
                                  ELSE filterDirection.SrcAndDst
              /\ fe.p.id \in {"", "abc"}
              /\ e.current >= 3
        /\ (Word(1) = "src" /\ Word(3) \notin DirectionWords) =>
              /\ fe.type = "primitive"
              /\ fe.p.direction = filterDirection.Src
              /\ fe.p.id = ""
              /\ e.current = 1

-----------------------------------------------------------------------------
(* Claims about emitted instruction counts (specification SpecExpr).       *)

-----------------------------------------------------------------------------
(* Claims about Handle.Close and ReadPacketData (specification SpecHandle). *)

\* C16: Handle.Close is idempotent: whatever the number of calls, sequential
\* or concurrent, the capture descriptor is closed exactly once (once any
\* call has returned) and no call closes it again.
C16_ClosedOnce ==
    /\ h.closes <= 1
    /\ \A k \in Closers : cpc[k] = "returned" => (h.closes = 1 /\ h.closed /\ h.fd /= "bpf")

C16_Witness == h.closes = 1 /\ \A k \in Closers : cpc[k] = "returned"

\* C17: a ReadPacketData call that returns after Close has closed the
\* descriptor returns a "closed" error (never packet data, never bytes read
\* through the reused number, never another error).
C17_ClosedError == (rd.pc = "returned" /\ rd.after) => rd.res = "closed"

-----------------------------------------------------------------------------
\* index (from 0) of the first of the two jumps that follow child k
JoinIndex(k) == SumSizes(SubSeq(c.primitives, 1, k), 1) - 2

\* the jump at index idx (from 0) is an unconditional jump with this skip
\* and lands on index target
JumpAt(idx, skip, target) ==
    /\ idx + 1 <= Len(retInst.s)
    /\ retInst.s[idx + 1] = Jump(ToUint32(skip))
    /\ idx + 1 + skip = target

\* C18: in a compiled composite of total size T, child k (not the last) is
\* followed by exactly two unconditional jumps; for AND they are Jump(1),
\* continuing at the next child, and Jump(T - index - 2), landing on the final
\* DROP at index T - 1; for OR they are Jump(T - index - 3), landing on the
\* final ACCEPT at index T - 2, and Jump(0), continuing at the next child.
C18_JoinJumps ==
    (Compiled /\ NumChildren >= 2) =>
        LET T == Len(retInst.s) IN
        /\ T >= 2
        /\ \A k \in 1..(NumChildren - 1) :
              IF c.and
              THEN /\ JumpAt(JoinIndex(k), 1, JoinIndex(k) + 2)
                   /\ JumpAt(JoinIndex(k) + 1, T - (JoinIndex(k) + 1) - 2, T - 1)
                   /\ retInst.s[T] = returnDrop
              ELSE /\ JumpAt(JoinIndex(k), T - JoinIndex(k) - 3, T - 2)
                   /\ JumpAt(JoinIndex(k) + 1, 0, JoinIndex(k) + 2)
                   /\ retInst.s[T - 1] = returnKeep

-----------------------------------------------------------------------------
(* Specification SpecBlock: one address or port check block is emitted for *)
(* its arguments and then run on a frame (filter/constants.go).            *)
(* An instruction of a block: "ld" loads a field of the frame into A,      *)
(* "ldx" loads X, "and" masks A, "jif" skips jt when A has the wanted      *)
(* value (or, after the load of the flags, its fragment bits set) and jf   *)
(* otherwise, "nil" is a nil bpf.Instruction.  The frame is the set of     *)
(* fields that have the wanted value.                                      *)

\* slack of succeed and fail over the smallest value a block can take
MaxSlack == 2

Ins(op, what, st, sf) == [op |-> op, what |-> what, jt |-> st, jf |-> sf]

\* checkIP4Addresses; masked: maskCheck != nil
checkIP4Addresses(direction, masked, fail, succeed) ==
    LET load(w) == <<Ins("ld", w, 0, 0)>> \o (IF masked THEN <<Ins("and", "", 0, 0)>> ELSE <<>>)
        both(acc) == acc \o <<Ins("jif", "", Uint8(succeed - Len(acc)), Uint8(fail - Len(acc)))>>
        onTrue(acc) == acc \o <<Ins("jif", "", Uint8(succeed - Len(acc)), 0)>>
        onFalse(acc) == acc \o <<Ins("jif", "", 0, Uint8(fail - Len(acc)))>>
    IN CASE direction = filterDirection.Src -> both(load("src"))
         [] direction = filterDirection.Dst -> both(load("dst"))
         [] direction = filterDirection.SrcOrDst -> both(onTrue(load("src")) \o load("dst"))
         [] direction = filterDirection.SrcAndDst -> both(onFalse(load("src")) \o load("dst"))
         [] OTHER -> <<>>

\* checkEtherAddresses
checkEtherAddresses(direction, fail, succeed) ==
    CASE direction = filterDirection.Src ->
            << Ins("ld", "srcLast", 0, 0), Ins("jif", "", 0, Uint8(fail - 1)),
               Ins("ld", "srcFirst", 0, 0), Ins("jif", "", Uint8(succeed - 3), Uint8(fail - 3)) >>
      [] direction = filterDirection.Dst ->
            << Ins("ld", "dstLast", 0, 0), Ins("jif", "", 0, Uint8(fail - 1)),
               Ins("ld", "dstFirst", 0, 0), Ins("jif", "", Uint8(succeed - 3), Uint8(fail - 3)) >>
      [] direction = filterDirection.SrcOrDst ->
            << Ins("ld", "srcLast", 0, 0), Ins("jif", "", 0, 2),
               Ins("ld", "srcFirst", 0, 0), Ins("jif", "", Uint8(succeed - 3), 0),
               Ins("ld", "dstLast", 0, 0), Ins("jif", "", 0, Uint8(fail - 5)),
               Ins("ld", "dstFirst", 0, 0), Ins("jif", "", Uint8(succeed - 7), Uint8(fail - 7)) >>
      [] direction = filterDirection.SrcAndDst ->
            << Ins("ld", "srcLast", 0, 0), Ins("jif", "", 0, Uint8(fail - 1)),
               Ins("ld", "srcFirst", 0, 0), Ins("jif", "", 0, Uint8(fail - 3)),
               Ins("ld", "dstLast", 0, 0), Ins("jif", "", 0, Uint8(fail - 5)),
               Ins("ld", "dstFirst", 0, 0), Ins("jif", "", 0, Uint8(fail - 7)) >>
      [] OTHER -> <<>>

\* loadIPv4HeaderOffset: flags and fragment offset, "do we have an L4 header?", X
loadIPv4HeaderOffset(skipFail) ==
    << Ins("ld", "frag", 0, 0), Ins("jif", "", Uint8(skipFail - 1), 0), Ins("ldx", "", 0, 0) >>

\* checkPorts
checkPorts(direction, fail0, succeed0, ip6) ==
    LET pre == IF ip6 THEN <<>> ELSE loadIPv4HeaderOffset(fail0)
        fail == Uint8(fail0 - Len(pre))
        succeed == Uint8(succeed0 - Len(pre))
    IN pre \o
       CASE direction = filterDirection.Src ->
               << Ins("ld", "src", 0, 0), Ins("jif", "", Uint8(succeed - 1), Uint8(fail - 1)) >>
         [] direction = filterDirection.Dst ->
               << Ins("ld", "dst", 0, 0), Ins("jif", "", Uint8(succeed - 1), Uint8(fail - 1)) >>
         [] direction = filterDirection.SrcOrDst ->
               << Ins("ld", "src", 0, 0), Ins("jif", "", Uint8(succeed - 1), 0),
                  Ins("ld", "dst", 0, 0), Ins("jif", "", Uint8(succeed - 3), Uint8(fail - 3)) >>
         [] direction = filterDirection.SrcAndDst ->
               << Ins("ld", "src", 0, 0), Ins("jif", "", 0, Uint8(fail - 1)),
                  Ins("ld", "dst", 0, 0), Ins("jif", "", Uint8(succeed - 3), Uint8(fail - 3)) >>
         [] OTHER -> <<>>

\* getSkipper; l is len(inst)
getSkipper(a, sz, l) == IF a = 0 THEN Uint8(sz - l - 1) ELSE Uint8(a - l)

\* loadAndCompareIPv6Address, "size": the steps it expects for a mask of m
\* leading ones (the word of a mask that holds its last m % 32 ones is never
\* 0xffffffff)
ip6Size(m) == Uint8(2 * (m \div 32) + (IF m % 32 /= 0 THEN 3 ELSE 0))

\* loadAndCompareIPv6Address, maskInst: set only for a partial word, else nil
maskInst(m) == IF m % 32 /= 0 THEN Ins("and", "", 0, 0) ELSE Ins("nil", "", 0, 0)

\* loadAndCompareIPv6Address, "for i, a := range addr" from word i on
RECURSIVE ip6Words(_, _, _, _, _, _)
ip6Words(k, acc, m, source, skipTrue, skipFalse) ==
    IF k > 3 THEN acc
    ELSE LET bitsUsed == 32 * (k + 1)
             field == IF source THEN <<"src0", "src1", "src2", "src3">>[k + 1]
                      ELSE <<"dst0", "dst1", "dst2", "dst3">>[k + 1]
             loaded == acc \o <<Ins("ld", field, 0, 0)>>
                            \o (IF bitsUsed > m THEN <<maskInst(m)>> ELSE <<>>)
             st == getSkipper(skipTrue, ip6Size(m), Len(loaded))
             sf == getSkipper(skipFalse, ip6Size(m), Len(loaded))
         IN IF bitsUsed >= m THEN loaded \o <<Ins("jif", "", st, sf)>>
            ELSE ip6Words(k + 1, loaded \o <<Ins("jif", "", IF k /= 3 THEN 0 ELSE st, sf)>>,
                          m, source, skipTrue, skipFalse)

loadAndCompareIPv6Address(m, source, skipTrue, skipFalse) ==
    ip6Words(0, <<>>, m, source, skipTrue, skipFalse)

\* the emitter a block's arguments are handed to
Emit(b) ==
    CASE b.kind = "ip4" -> checkIP4Addresses(b.direction, FALSE, b.fail, b.succeed)
      [] b.kind = "ip4net" -> checkIP4Addresses(b.direction, TRUE, b.fail, b.succeed)
      [] b.kind = "ether" -> checkEtherAddresses(b.direction, b.fail, b.succeed)
      [] b.kind = "port4" -> checkPorts(b.direction, b.fail, b.succeed, FALSE)
      [] b.kind = "port6" -> checkPorts(b.direction, b.fail, b.succeed, TRUE)
      [] OTHER -> loadAndCompareIPv6Address(b.m, b.source, b.succeed, b.fail)

\* the arguments: every check block in every direction, with succeed and fail
\* from the block's length minus one upwards, and succeed = 0 ("the next one
\* is succeed"); every IPv6 prefix length
CheckKinds == {"ip4", "ip4net", "ether", "port4", "port6"}
BlockInputs ==
    LET CheckDirections == {filterDirection.Src, filterDirection.Dst,
                            filterDirection.SrcOrDst, filterDirection.SrcAndDst}
        BlockLen(k, d) ==
            Len(Emit([kind |-> k, direction |-> d, fail |-> 0, succeed |-> 0,
                      m |-> 0, source |-> FALSE, frame |-> {}]))
        FrameFields(k) ==
            CASE k = "ether" -> {"srcLast", "srcFirst", "dstLast", "dstFirst"}
              [] k = "port4" -> {"src", "dst", "frag"}
              [] OTHER -> {"src", "dst"}
    IN UNION { { [kind |-> k, direction |-> d, fail |-> f, succeed |-> s,
                  m |-> 0, source |-> FALSE, frame |-> fr] :
                   f \in (BlockLen(k, d) - 1)..(BlockLen(k, d) - 1 + MaxSlack),
                   s \in {0} \cup ((BlockLen(k, d) - 1)..(BlockLen(k, d) - 1 + MaxSlack)),
                   fr \in SUBSET FrameFields(k) } :
               k \in CheckKinds, d \in CheckDirections }
       \cup { [kind |-> "ip6", direction |-> filterDirection.Unset, fail |-> f, succeed |-> s,
               m |-> m, source |-> src, frame |-> fr] :
                f \in {0} \cup (8..(8 + MaxSlack)), s \in {0} \cup (8..(8 + MaxSlack)),
                m \in 0..128, src \in BOOLEAN,
                fr \in {{}, {"src0", "src1", "src2", "src3", "dst0", "dst1", "dst2", "dst3"}} }

InitBlock ==
    /\ CompIdle
    /\ frame = {}
    /\ verdict = -1
    /\ ExprIdle
    /\ DefIdle
    /\ HandleIdle
    /\ blk \in BlockInputs
    /\ binst = <<>>
    /\ bpos = 0
    /\ bacc = ""
    /\ bpc = "chosen"
    /\ SysIdle

\* the emitter is called and returns the block
BlockEmit ==
    /\ bpc = "chosen"
    /\ binst' = Emit(blk)
    /\ bpc' = "run"
    /\ UNCHANGED <<blk, bpos, bacc>>
    /\ UNCHANGED <<compVars, exprVars, defVars, handleVars>>
    /\ UNCHANGED sysVars

\* the machine executes the instruction at bpos; control leaves the block at
\* the first index past its end; a nil instruction cannot be assembled
BlockStep ==
    /\ bpc = "run"
    /\ bpos < Len(binst)
    /\ LET ins == binst[bpos + 1]
           next == IF ins.op = "jif"
                   THEN bpos + 1 + (IF bacc \in blk.frame THEN ins.jt ELSE ins.jf)
                   ELSE bpos + 1
       IN IF ins.op = "nil"
          THEN bpc' = "panic" /\ UNCHANGED <<bpos, bacc>>
          ELSE /\ bpos' = next
               /\ bacc' = IF ins.op = "ld" THEN ins.what ELSE bacc
               /\ bpc' = IF next >= Len(binst) THEN "left" ELSE "run"
    /\ UNCHANGED <<blk, binst>>
    /\ UNCHANGED <<compVars, exprVars, defVars, handleVars>>
    /\ UNCHANGED sysVars

NextBlock == BlockEmit \/ BlockStep

SpecBlock == InitBlock /\ [][NextBlock]_vars

\* whether the frame satisfies the block's condition: the source has the
\* wanted address or port for SRC, the destination for DST, either for
\* SRC_OR_DST, both for SRC_AND_DST; every compared word for an IPv6 address
ConditionHolds ==
    LET Matches(side) ==
            CASE blk.kind = "ether" -> {side \o "Last", side \o "First"} \subseteq blk.frame
              [] blk.kind = "port4" -> "frag" \notin blk.frame /\ side \in blk.frame
              [] OTHER -> side \in blk.frame
    IN CASE blk.kind = "ip6" -> blk.frame /= {}
         [] blk.direction = filterDirection.Src -> Matches("src")
         [] blk.direction = filterDirection.Dst -> Matches("dst")
         [] blk.direction = filterDirection.SrcOrDst -> Matches("src") \/ Matches("dst")
         [] OTHER -> Matches("src") /\ Matches("dst")

\* C19: for each check block (checkIP4Addresses with or without netmask,
\* checkEtherAddresses, checkPorts), each direction and every succeed and fail
\* not smaller than the block length minus one, control leaves the block at
\* block start + succeed + 1 exactly when the direction's condition holds and
\* at block start + fail + 1 otherwise.
C19_BlockTargets ==
    (/\ bpc = "left" /\ blk.kind \in CheckKinds
     /\ blk.succeed >= Len(binst) - 1 /\ blk.fail >= Len(binst) - 1) =>
        bpos = IF ConditionHolds THEN blk.succeed + 1 ELSE blk.fail + 1

\* C21: in the address check helpers, when the caller passes succeed = 0 for
\* "the succeed instruction is the one right after the block", no emitted
\* SkipTrue/SkipFalse has wrapped around in uint8 (no jump aims past the
\* block's end and past both targets) and a matching frame leaves the block at
\* the instruction right after it.
C21_SucceedZero ==
    (/\ bpc \in {"run", "left"} /\ blk.kind \in {"ip4", "ip4net", "ether", "ip6"}
     /\ blk.succeed = 0) =>
        /\ \A j \in 1..Len(binst) :
              binst[j].op = "jif" =>
                 \A t \in {j + binst[j].jt, j + binst[j].jf} :
                    t <= Len(binst) \/ t = blk.fail + 1
        /\ (bpc = "left" /\ ConditionHolds) => bpos = Len(binst)

\* C20: for an IPv6 net of prefix length m, 0 <= m <= 128, the per-address
\* comparison block compares exactly ceil(m/32) words, holds one ALU_AND (on
\* the last compared word) exactly when m is not a multiple of 32, holds only
\* real instructions, and is as long as the size computed before emitting.
C20_IP6MaskBlock ==
    LET CountOp(op) == Cardinality({j \in 1..Len(binst) : binst[j].op = op})
    IN (blk.kind = "ip6" /\ bpc /= "chosen") =>
           /\ CountOp("jif") = (blk.m + 31) \div 32
           /\ CountOp("ld") = (blk.m + 31) \div 32
           /\ CountOp("and") = IF blk.m % 32 /= 0 THEN 1 ELSE 0
           /\ blk.m % 32 /= 0 => binst[Len(binst) - 1].op = "and"
           /\ CountOp("nil") = 0
           /\ Len(binst) = ip6Size(blk.m)

-----------------------------------------------------------------------------
\* the k-th word is an id: no joiner, "not", "gateway" or "proto", in none of
\* the four tables, and not the argument of "proto"
IdWord(k) ==
    /\ Word(k) \notin {"and", "or", "not", "gateway", "proto"}
    /\ Word(k) \notin (DOMAIN kinds \cup DOMAIN directions
                       \cup DOMAIN protocols \cup DOMAIN subProtocols)
    /\ k > 1 => Word(k - 1) /= "proto"

\* C22: Next ends the primitive it is building at the end of input, at a
\* joiner, or at the word that begins a new primitive once content has been
\* accumulated: the primitive the first call returns holds no word after its
\* id, and for "host a host b" it is "host a".
C22_NoFoldedPrimitives ==
    (FirstNext /\ fe.type = "primitive") =>
        /\ \A k \in 1..(e.current - 1) : ~IdWord(k)
        /\ raw = HostAHostB => (fe.p.id = "a" /\ e.current = 2)

\* C23: on a non-nil Expression every call of Next made while tokens remain
\* consumes at least one token and returns a non-nil element; once all tokens
\* are consumed HasNext is false and Next returns nil; a joiner seen after
\* content was accumulated is left unconsumed and returned by the following
\* call; Expression.Compile returns after at most as many calls of Next as
\* there are tokens plus one, with every token consumed.
C23_NextConsumes ==
    /\ (epc = "compile" /\ ~e.nil) =>
          /\ e.current <= Len(e.split)
          /\ calls <= e.current
          /\ HasNext(e) =>
                /\ ExpressionNext(e).current > e.current
                /\ ExpressionNext(e).fe.type /= "nil"
          /\ ~HasNext(e) => ExpressionNext(e) = [fe |-> NilElement, current |-> e.current]
          /\ (fe.type = "primitive" /\ HasNext(e)) =>
                /\ Word(e.current + 1) \in {"and", "or"}
                /\ ExpressionNext(e) = [fe |-> joinerElement(Word(e.current + 1) = "and"),
                                        current |-> e.current + 1]
    /\ Returned =>
          /\ e.current = Len(e.split)
          /\ ~HasNext(e)
          /\ fe = NilElement
          /\ calls <= Len(e.split) + 1

C23_Witness == Returned /\ Len(e.split) = 3 /\ calls = 4 /\ filter.type = "composite"

-----------------------------------------------------------------------------
(* Further claims about setPrimitiveDefaults (specification SpecDefaults). *)

\* the primitive was passed without any qualifier
Bare(p) ==
    /\ p.direction = filterDirection.Unset /\ p.protocol = filterProtocol.Unset
    /\ p.kind = filterKind.Unset /\ p.subProtocol = filterSubProtocol.Unset

\* the protocol after the TCP/UDP/ICMP special case
L4Protocol(p) ==
    IF /\ p.subProtocol \in {filterSubProtocol.Tcp, filterSubProtocol.Udp, filterSubProtocol.Icmp}
       /\ p.protocol = filterProtocol.Unset
    THEN filterProtocol.Ip ELSE p.protocol

C25_HostFromGivenDirection ==
    dpc = "once" =>
        /\ (/\ orig.kind = filterKind.Unset /\ prim.kind = filterKind.Host
            /\ prim.protocol /= filterProtocol.Unset) =>
              \/ orig.direction /= filterDirection.Unset
              \/ /\ Bare(orig) /\ ~lastPrim.nil
                 /\ \/ lastPrim.p.kind = filterKind.Host
                    \/ lastPrim.p.direction /= filterDirection.SrcOrDst
        /\ (/\ orig.kind = filterKind.Unset /\ orig.protocol = filterProtocol.Ether
            /\ orig.subProtocol = filterSubProtocol.Unset) =>
              IF orig.direction = filterDirection.Unset
              THEN prim.direction = filterDirection.SrcOrDst /\ prim.kind = filterKind.Unset
              ELSE prim.direction = orig.direction /\ prim.kind = filterKind.Host

-----------------------------------------------------------------------------
\* the elements the successive calls of Next return for an expression
RECURSIVE NextElements(_)
NextElements(ex) ==
    IF ~HasNext(ex) THEN <<>>
    ELSE <<ExpressionNext(ex).fe>>
         \o NextElements([ex EXCEPT !.current = ExpressionNext(ex).current])

-----------------------------------------------------------------------------
(* Specification SpecRead: one call of Handle.readPacketDataSyscall        *)
(* (pcap_darwinbsd.go) with its watcher goroutine, the caller of           *)
(* h.context's cancel function and the device.  rs.pc is the position of   *)
(* the call, rs.w that of the goroutine ("select", "write", "exited"),     *)
(* rs.rfd and rs.wfd the two ends of the pipe, rs.done whether the done    *)
(* channel is closed, rs.byte whether the pipe holds the wake-up byte,     *)
(* rs.packet whether h.fd is readable, rs.both whether the context was     *)
(* cancelled and a packet ready when unix.Poll returned, rs.badWrite       *)
(* whether unix.Write ran on a wfd that was closed.                        *)

notRead == <<compVars, exprVars, defVars, handleVars, blockVars, ol, mm>>

InitRead ==
    /\ CompIdle
    /\ frame = {}
    /\ verdict = -1
    /\ ExprIdle
    /\ DefIdle
    /\ HandleIdle
    /\ BlockIdle
    /\ OpenIdle
    /\ RingIdle
    /\ rs \in {[pc |-> "start", res |-> "none", w |-> "none", rfd |-> "none", wfd |-> "none",
                done |-> FALSE, byte |-> FALSE, cancelled |-> cn, packet |-> pk,
                timeout |-> t, both |-> FALSE, badWrite |-> FALSE] :
                   cn \in BOOLEAN, pk \in BOOLEAN, t \in BOOLEAN}

\* unix.Pipe fails and the call returns, or: the pipe is open, its ends are
\* deferred for closing and made non-blocking, the goroutine is started,
\* close(done) is deferred, pfd is filled in
RdPipe ==
    /\ rs.pc = "start"
    /\ \/ rs' = [rs EXCEPT !.pc = "returned", !.res = "pipe error"]
       \/ rs' = [rs EXCEPT !.pc = "poll", !.rfd = "open", !.wfd = "open", !.w = "select"]
    /\ UNCHANGED notRead

\* a return statement after unix.Poll: the result is fixed, the deferred calls follow
pollResult(res) ==
    rs' = [rs EXCEPT !.pc = "closeDone", !.res = res, !.both = rs.cancelled /\ rs.packet]

\* unix.Poll fails: with EINTR return nil, ci, h.context.Err() (nil when the
\* context is not cancelled), with another error return that error
RdPollIntr ==
    /\ rs.pc = "poll"
    /\ \/ pollResult(IF rs.cancelled THEN "context error" ELSE "nil error")
       \/ pollResult("poll error")
    /\ UNCHANGED notRead

\* unix.Poll returns: n == 0 after the timeout with nothing ready; the pipe
\* is readable (checked first); only h.fd is readable
RdPollReady ==
    /\ rs.pc = "poll"
    /\ \/ rs.timeout /\ ~rs.packet /\ ~rs.byte /\ pollResult("deadline exceeded")
       \/ rs.byte /\ pollResult("context error")
       \/ /\ rs.packet /\ ~rs.byte
          /\ rs' = [rs EXCEPT !.pc = "read", !.both = rs.cancelled /\ rs.packet]
    /\ UNCHANGED notRead

\* unix.Read(h.fd, h.buf) and the return of the packet or of the error
RdRead ==
    /\ rs.pc = "read"
    /\ \E r \in {"packet", "error reading"} : rs' = [rs EXCEPT !.pc = "closeDone", !.res = r]
    /\ UNCHANGED notRead

\* the deferred calls, last deferred first: close(done), unix.Close(wfd), unix.Close(rfd)
RdCloseDone ==
    /\ rs.pc = "closeDone"
    /\ rs' = [rs EXCEPT !.pc = "closeWfd", !.done = TRUE]
    /\ UNCHANGED notRead

RdCloseWfd ==
    /\ rs.pc = "closeWfd"
    /\ rs' = [rs EXCEPT !.pc = "closeRfd", !.wfd = "closed"]
    /\ UNCHANGED notRead

RdCloseRfd ==
    /\ rs.pc = "closeRfd"
    /\ rs' = [rs EXCEPT !.pc = "returned", !.rfd = "closed"]
    /\ UNCHANGED notRead

\* the goroutine's select: a case that is ready is taken (any one of them
\* when both are)
WatchSelect ==
    /\ rs.w = "select"
    /\ \/ rs.cancelled /\ rs' = [rs EXCEPT !.w = "write"]
       \/ rs.done /\ rs' = [rs EXCEPT !.w = "exited"]
    /\ UNCHANGED notRead

\* _, _ = unix.Write(wfd, []byte{1}), then the goroutine ends
WatchWrite ==
    /\ rs.w = "write"
    /\ rs' = [rs EXCEPT !.w = "exited",
                        !.byte = @ \/ rs.wfd = "open",
                        !.badWrite = @ \/ rs.wfd /= "open"]
    /\ UNCHANGED notRead

\* the owner of the context cancels it
ReadCancel ==
    /\ ~rs.cancelled
    /\ rs.pc /= "idle"
    /\ rs' = [rs EXCEPT !.cancelled = TRUE]
    /\ UNCHANGED notRead

\* a packet arrives on the device
ReadPacket ==
    /\ ~rs.packet
    /\ rs.pc \in {"start", "poll"}
    /\ rs' = [rs EXCEPT !.packet = TRUE]
    /\ UNCHANGED notRead

NextRead ==
    \/ RdPipe \/ RdPollIntr \/ RdPollReady \/ RdRead
    \/ RdCloseDone \/ RdCloseWfd \/ RdCloseRfd
    \/ WatchSelect \/ WatchWrite \/ ReadCancel \/ ReadPacket

SpecRead == InitRead /\ [][NextRead]_vars

\* the call and the goroutine keep running; a poll returns once a descriptor
\* is ready or the timeout has passed (an interruption may never come)
SpecReadLive ==
    /\ SpecRead
    /\ WF_vars(RdPipe) /\ WF_vars(RdPollReady) /\ WF_vars(RdRead)
    /\ WF_vars(RdCloseDone) /\ WF_vars(RdCloseWfd) /\ WF_vars(RdCloseRfd)
    /\ WF_vars(WatchSelect) /\ WF_vars(WatchWrite)

\* C27: if the context is cancelled before or while ReadPacketData waits, the
\* call eventually returns; when the context is cancelled and a packet is
\* ready at the time the poll returns, the call returns the context's error;
\* a poll that times out with nothing ready returns context.DeadlineExceeded.
C27_CancelWins ==
    /\ [](rs.pc = "returned" =>
            /\ rs.both => rs.res = "context error"
            /\ rs.res = "deadline exceeded" => rs.timeout)
    /\ ((rs.cancelled /\ rs.pc \in {"start", "poll"}) ~> (rs.pc = "returned"))

\* C28: the watcher goroutine writes to the wake-up pipe only while the pipe
\* is open, in every interleaving of the cancellation with the return of the
\* call, and the goroutine ends after the call has returned.
C28_WatcherWritesOpenPipe ==
    /\ [](~rs.badWrite)
    /\ ((rs.pc = "returned" /\ rs.w /= "none") ~> (rs.w = "exited"))

-----------------------------------------------------------------------------
(* Specification SpecOpen: one call of openLive, on the BSDs                *)
(* (pcap_darwinbsd.go) or on Linux (pcap_linux.go).  ol.fd is the           *)
(* descriptor the call opened ("none", "open", "closed"), ol.dev the number *)
(* of the /dev/bpf device the loop is at, ol.devs what unix.Open answers    *)
(* for each device ("free", "busy" for EBUSY, "error"), ol.step the         *)
(* position in the calls that follow the open, ol.res the result and ol.at  *)
(* the call that failed.                                                    *)

\* the loop of openLive tries /dev/bpf0 .. /dev/bpf254
NumDevices == 3

notOpen == <<compVars, exprVars, defVars, handleVars, blockVars, rs, mm>>

\* the calls on the descriptor after it is open, in the order of the code
openSteps(o) ==
    IF o.os = "bsd"
    THEN <<"SetBpfInterface", "SetBpfHeadercmpl", "SetBpfMonitor", "SetBpfImmediate",
           "BpfBuflen", "getLinkType">>
    ELSE (IF o.iface
          THEN <<"InterfaceByName", "Bind">>
                   \o (IF o.promiscuous THEN <<"SetsockoptPacketMreq">> ELSE <<>>)
          ELSE <<>>)
         \o (IF ~o.syscalls THEN <<"PACKET_VERSION", "PACKET_RX_RING", "Mmap">> ELSE <<>>)

InitOpen ==
    /\ CompIdle
    /\ frame = {}
    /\ verdict = -1
    /\ ExprIdle
    /\ DefIdle
    /\ HandleIdle
    /\ BlockIdle
    /\ ReadIdle
    /\ RingIdle
    /\ \E os \in {"bsd", "linux"}, b1 \in BOOLEAN, b2 \in BOOLEAN, b3 \in BOOLEAN :
         \E ds \in [1..NumDevices -> {"free", "busy", "error"}] :
           /\ os = "linux" => \A k \in 1..NumDevices : ds[k] = "busy"
           /\ ol = [os |-> os, pc |-> "start", fd |-> "none", dev |-> 0, devs |-> ds,
                    iface |-> b1, promiscuous |-> b2, syscalls |-> b3,
                    step |-> 0, res |-> "none", at |-> "none"]

\* a return statement of openLive: nothing runs between it and the caller
openReturn(res, at) == ol' = [ol EXCEPT !.pc = "returned", !.res = res, !.at = at]

\* getEndianness and its error return
OpenEndian ==
    /\ ol.pc = "start"
    /\ \/ openReturn("error", "getEndianness")
       \/ ol' = [ol EXCEPT !.pc = IF ol.os = "bsd" THEN "device" ELSE "socket"]
    /\ UNCHANGED notOpen

\* one turn of the device loop, or the test after the loop
OpenDevice ==
    /\ ol.pc = "device"
    /\ IF ol.dev >= NumDevices
       THEN openReturn("error", "no device")
       ELSE LET d == ol.devs[ol.dev + 1] IN
            CASE d = "free" -> ol' = [ol EXCEPT !.pc = "steps", !.fd = "open", !.step = 1]
              [] d = "busy" -> ol' = [ol EXCEPT !.dev = @ + 1]
              [] OTHER -> openReturn("error", "Open")
    /\ UNCHANGED notOpen

\* syscall.Socket
OpenSocket ==
    /\ ol.pc = "socket"
    /\ \/ openReturn("error", "Socket")
       \/ ol' = [ol EXCEPT !.pc = "steps", !.fd = "open", !.step = 1]
    /\ UNCHANGED notOpen

\* the next call on the open descriptor: it succeeds, or it fails and
\* openLive returns its error; after the last one return &h, nil
OpenStep ==
    /\ ol.pc = "steps"
    /\ IF ol.step > Len(openSteps(ol))
       THEN openReturn("ok", "none")
       ELSE \/ ol' = [ol EXCEPT !.step = @ + 1]
            \/ openReturn("error", openSteps(ol)[ol.step])
    /\ UNCHANGED notOpen

NextOpen == OpenEndian \/ OpenDevice \/ OpenSocket \/ OpenStep

SpecOpen == InitOpen /\ [][NextOpen]_vars

\* C29: whenever openLive returns an error, the descriptor it opened has been
\* closed again; on the BSDs the loop takes the first device that is not
\* EBUSY and fails at the first open error other than EBUSY.
C29_ErrorClosesDescriptor ==
    /\ (ol.pc = "returned" /\ ol.res = "error") => ol.fd /= "open"
    /\ (ol.os = "bsd" /\ (ol.pc = "steps" \/ ol.at = "Open")) =>
          /\ \A k \in 1..ol.dev : ol.devs[k] = "busy"
          /\ ol.devs[ol.dev + 1] = (IF ol.at = "Open" THEN "error" ELSE "free")

-----------------------------------------------------------------------------
(* Specification SpecRing: a Linux handle opened by openLive with           *)
(* syscalls = false, calls of Handle.readPacketDataMmap on it and the       *)
(* kernel that fills the ring (pcap_linux.go).  mm.ring holds, for each     *)
(* frame slot in the kernel's numbering, the status word at the start of    *)
(* the slot as <<first, last>>: its first and its last byte in memory, the  *)
(* bytes between them being zero for the flags used here.  mm.khead is the  *)
(* slot the kernel fills next, mm.slot the slot of the last successful      *)
(* read and mm.left the status word that read left in it (-1 before the     *)
(* first read, -2 if the write hit no slot start).                          *)

\* blockNumbers: defaultBlockNumbers is 32
BlockNumbers == 2

\* syscall.Getpagesize()
PageSize == 4096

\* the snaplen arguments of openLive
Snaplens == {1200, 1500, 4000, 4096, 65535}

TP_STATUS_KERNEL == 0
TP_STATUS_USER == 1

notRing == <<compVars, exprVars, defVars, handleVars, blockVars, rs, ol>>

\* (base + TPACKET_ALIGNMENT - 1) &^ (TPACKET_ALIGNMENT - 1), TPACKET_ALIGNMENT = 16
tpacketAlign(base) == ((base + 15) \div 16) * 16

\* the first power-of-two multiple of the page size that is > frameSize
RECURSIVE growBlock(_, _)
growBlock(blockSize, frameSize) ==
    IF blockSize > frameSize THEN blockSize ELSE growBlock(blockSize * 2, frameSize)

\* the status word, read in the byte order of the machine
statusWord(st, endian) ==
    IF endian = "little" THEN st[1] + 256 * st[2] ELSE st[2] + 256 * st[1]

\* the bytes of status word v in the byte order of the machine
statusBytes(v, endian) ==
    IF endian = "little" THEN <<v % 256, v \div 256>> ELSE <<v \div 256, v % 256>>

\* where the kernel puts frame k of the ring: block k / frames-per-block,
\* position k mod frames-per-block in it
slotOffset(m, k) == (k \div m.framesPerBuffer) * m.blockSize + (k % m.framesPerBuffer) * m.frameSize

\* the slot that starts at byte ptr of the ring, -1 if none does
slotAt(m, ptr) ==
    IF \E k \in 0..(m.frameNumbers - 1) : slotOffset(m, k) = ptr
    THEN CHOOSE k \in 0..(m.frameNumbers - 1) : slotOffset(m, k) = ptr
    ELSE -1

\* h.ring[h.framePtr]
firstByte(m) == IF slotAt(m, m.framePtr) = -1 THEN 0 ELSE m.ring[slotAt(m, m.framePtr) + 1][1]

\* the ring of openLive for a snaplen and a byte order: TPACKET_HDRLEN is 52
InitRing ==
    /\ CompIdle
    /\ frame = {}
    /\ verdict = -1
    /\ ExprIdle
    /\ DefIdle
    /\ HandleIdle
    /\ BlockIdle
    /\ ReadIdle
    /\ OpenIdle
    /\ \E snaplen \in Snaplens, endian \in {"little", "big"} :
         LET frameSize == tpacketAlign(52 + 16) + tpacketAlign(snaplen)
             blockSize == growBlock(PageSize, frameSize)
             framesPerBuffer == blockSize \div frameSize
             frameNumbers == BlockNumbers * framesPerBuffer
         IN mm = [pc |-> "ready", endian |-> endian, frameSize |-> frameSize,
                  blockSize |-> blockSize, framesPerBuffer |-> framesPerBuffer,
                  frameNumbers |-> frameNumbers, frameIndex |-> 0, framePtr |-> 0,
                  ring |-> [k \in 1..frameNumbers |-> <<0, 0>>], khead |-> 0,
                  left |-> -1, slot |-> 0, res |-> "none"]

\* readPacketDataMmap from "read the header" on (the header parsers get
\* slices of the length they ask for and do not fail): the byte at framePtr
\* is set to TP_STATUS_KERNEL, frameIndex advances and framePtr is recomputed
readFrame(m) ==
    LET k == slotAt(m, m.framePtr)
        ring2 == IF k = -1 THEN m.ring
                 ELSE [m.ring EXCEPT ![k + 1] = <<TP_STATUS_KERNEL, @[2]>>]
        frameIndex == (m.frameIndex + 1) % m.frameNumbers
        bufferIndex == (frameIndex \div m.framesPerBuffer) * m.blockSize
        frameIndexDiff == frameIndex % m.framesPerBuffer
    IN [m EXCEPT !.pc = "ready", !.res = "packet", !.ring = ring2, !.slot = k,
                 !.left = IF k = -1 THEN -2 ELSE statusWord(ring2[k + 1], m.endian),
                 !.frameIndex = frameIndex,
                 !.framePtr = bufferIndex + frameIndexDiff * m.frameSize]

\* a call of readPacketDataMmap up to syscall.Poll, and all of it when the
\* byte at framePtr has TP_STATUS_USER set
MmapCall ==
    /\ mm.pc = "ready"
    /\ IF firstByte(mm) % 2 = TP_STATUS_USER
       THEN mm' = readFrame(mm)
       ELSE mm' = [mm EXCEPT !.pc = "poll"]
    /\ UNCHANGED notRing

\* syscall.Poll(h.pollfd, -1) fails, or returns once the socket is readable
\* (a frame of the ring is not the kernel's) and the call goes on
MmapPoll ==
    /\ mm.pc = "poll"
    /\ \/ mm' = [mm EXCEPT !.pc = "ready", !.res = "poll error"]
       \/ /\ \E k \in 1..mm.frameNumbers : statusWord(mm.ring[k], mm.endian) /= TP_STATUS_KERNEL
          /\ mm' = readFrame(mm)
    /\ UNCHANGED notRing

\* the kernel receives a packet: if the slot at its position is its own
\* (status TP_STATUS_KERNEL) it fills the slot, sets the status (TP_STATUS_USER,
\* with or without the flag 2 of a truncated packet) and moves on
KernelDeliver ==
    /\ mm.pc \in {"ready", "poll"}
    /\ statusWord(mm.ring[mm.khead + 1], mm.endian) = TP_STATUS_KERNEL
    /\ \E v \in {TP_STATUS_USER, TP_STATUS_USER + 2} :
         mm' = [mm EXCEPT !.ring[mm.khead + 1] = statusBytes(v, mm.endian),
                          !.khead = (@ + 1) % mm.frameNumbers]
    /\ UNCHANGED notRing

NextRing == MmapCall \/ MmapPoll \/ KernelDeliver

SpecRing == InitRing /\ [][NextRing]_vars

\* C30: after any number of readPacketDataMmap calls frameIndex < frameNumbers
\* and framePtr = (frameIndex / framesPerBuffer) * blockSize + (frameIndex mod
\* framesPerBuffer) * frameSize, the start of a slot lying inside its block and
\* inside the mapped ring; the slots are visited cyclically in increasing
\* order; each successful read leaves the frame it read with status
\* TP_STATUS_KERNEL.
C30_RingWalk ==
    /\ [](mm.pc /= "idle" =>
            /\ mm.frameIndex < mm.frameNumbers
            /\ mm.framePtr = (mm.frameIndex \div mm.framesPerBuffer) * mm.blockSize
                               + (mm.frameIndex % mm.framesPerBuffer) * mm.frameSize
            /\ slotAt(mm, mm.framePtr) = mm.frameIndex
            /\ mm.framePtr + mm.frameSize <= ((mm.frameIndex \div mm.framesPerBuffer) + 1) * mm.blockSize
            /\ mm.framePtr + mm.frameSize <= BlockNumbers * mm.blockSize
            /\ mm.left \in {-1, TP_STATUS_KERNEL})
    /\ [][mm'.frameIndex \in {mm.frameIndex, (mm.frameIndex + 1) % mm.frameNumbers}]_vars
====
